---------------------------- MODULE Spec2Model ----------------------------
(***************************************************************************)
(* A model of the haddock3 pipeline core:                                  *)
(*   - get_index_list, the partition of n models among c cores             *)
(*     (haddock/modules/analysis/alascan/__init__.py);                     *)
(*   - BaseHaddockModule: construction, _load_previous_io, previous_path,  *)
(*     finish_with_error (haddock/modules/__init__.py);                    *)
(*   - the alascan step, HaddockModule._run;                               *)
(*   - working_directory and the names of the step directories;            *)
(*   - the Scheduler and the pipeline controller, whose code is not part   *)
(*     of the sources at hand and is modelled from the design document;    *)
(*   - the configuration loader and its header patterns, to_torque_time    *)
(*     and the SLURM status query, modelled from the design document and   *)
(*     from their test suites (tests/test_config_reader.py,                *)
(*     tests/test_libhpc.py);                                              *)
(*   - the preparation of input structures, process_pdbs and the steps it  *)
(*     chains (src/haddock/gear/preprocessing.py).                         *)
(***************************************************************************)
EXTENDS Integers, Sequences, FiniteSets, TLC

(***************************************************************************)
(* Bounds of the model.                                                    *)
(***************************************************************************)
MaxN == 10        \* get_index_list: nmodels ranges over 0..MaxN
MaxC == 4        \* get_index_list: ncores ranges over 1..MaxC
MaxSteps == 2    \* pipeline: ordinals 1..MaxSteps follow the setup ordinal 0
MaxModels == 3   \* pipeline: a manifest holds 0..MaxModels models
MaxCores == 3    \* pipeline: parse_ncores answers 1..MaxCores
MaxJobs == 4     \* Scheduler alone: 0..MaxJobs jobs
Ceiling == 2     \* Scheduler: polls before an outstanding job is timed out
MaxLineLen == 5  \* header patterns: lines of 0..MaxLineLen characters
MaxLines == 5    \* configuration loader: texts of 0..MaxLines lines
MaxOrder == 11   \* previous_path: ordinals 0..MaxOrder
MaxDepth == 2    \* working_directory: blocks nested up to MaxDepth deep
MaxMinutes == 6100 \* to_torque_time: durations of 0..MaxMinutes minutes
MaxQueueJobs == 3 \* SLURM backend: jobs in the queue
MaxPolls == 4    \* SLURM backend: polls of one job
MaxSuffixLen == 4 \* get_module_name: suffixes of 0..MaxSuffixLen characters
MaxPadWidth == 3 \* step directory names: ordinals padded to 2..MaxPadWidth digits

VARIABLES
    \* ---- get_index_list, run statement by statement
    ilPc,          \* "call" | "loop" | "returned"
    nmodels_arg,   \* argument nmodels
    ncores_arg,    \* argument ncores
    spc,           \* local spc
    rem,           \* local rem
    core,          \* loop variable of `for core in range(ncores)`
    ilList,        \* local index_list
    \* ---- the controlling process
    pc,            \* position of the controlling process
    step,          \* ordinal the controller is at
    cwd,           \* current working directory of the process
    exc,           \* exception that ended the process, "none" while alive
    logged,        \* what logger.error received last
    \* ---- the file system
    manifests,     \* directory -> the MODULE_IO_FILE in it
    files,         \* job output files that exist
    \* ---- the module object of the current step
    order,         \* self.order
    path,          \* self.path
    previous_io,   \* self.previous_io: the number of models it holds
    cns_script,    \* constructor argument, by what opening it gives
    cns_defaults,  \* constructor argument, by what opening it gives
    cns_recipe_path, \* attribute: "unset" or the argument
    defaults_path, \* attribute: "unset" or the argument
    \* ---- HaddockModule._run
    nmodels,       \* per step: len(models)
    ncores,        \* local ncores
    index_list,    \* local index_list
    jobs,          \* per step: alascan_jobs, each job with its status
    not_found,     \* local not_found
    \* ---- Scheduler
    sched,         \* "idle" | "running" | "returned"
    budget         \* the concurrency budget it was built with
    \* A job is a record: its output name, its slice [lo, hi) of the models,
    \* its status, and its age, the number of polls that found it
    \* outstanding (0 again once it is terminal).

VARIABLES
    \* ---- the header patterns of the configuration reader, on one line
    hdrPc,         \* "call" | "main" | "done"
    hdrLine,       \* the line, a sequence of characters
    hdrMain,       \* groups of _main_header_re.match(line), <<>> for None
    hdrSub         \* groups of _sub_header_re.match(line), <<>> for None

VARIABLES
    \* ---- the configuration loader, reading a text line by line
    cfgPc,         \* "read" | "done" | "error"
    cfgLines,      \* the text, a sequence of lines
    cfgPos,        \* index of the line to read next
    cfgCount,      \* top-level name -> number of its declarations so far
    cfgOpen,       \* path of the section that is open
    cfgSections,   \* the sections made so far, each by its path
    cfgVals,       \* [sec, key] -> value, the parameters set so far
    cfgResult      \* the Config Tree returned

VARIABLES
    \* ---- previous_path computed in and out of working_directory blocks
    wdStack,       \* prev_cwd of each working_directory block that is open
    wdArgs,        \* the path argument of each block that is open
    wdUnwound,     \* the directories restored since an exception was raised
    ppLast,        \* the directory previous_path returned last, <<>> before
    ppName,        \* the name of that directory, as text
    ppSeen         \* every directory previous_path has returned

VARIABLES
    \* ---- to_torque_time on one duration
    tqPc,          \* "call" | "done"
    tqMinutes,     \* the argument, a number of minutes
    tqOut,         \* the text returned
    \* ---- jobs of a SLURM queue, polled with the status query
    qjobs          \* per job: the last answer of the queue, the status
                   \* extracted from it, the job's status and its polls

VARIABLES
    \* ---- get_module_name on one key
    gmPc,          \* "call" | "done"
    gmName,        \* a section name without a dot
    gmSuffix,      \* a suffix of dots and digits
    gmOut          \* get_module_name(gmName + gmSuffix)

VARIABLES
    \* ---- calls of the functions of gear/preprocessing.py
    chainsCount,   \* how many letters _CHAINS has yielded since import
    assigned,      \* the letters given to structures without any ID, in order
    fn,            \* the function called last, "none" before the first call
    argStructs,    \* its argument: a list of structures, one for a function
                   \* of one structure
    argFlags,      \* the keyword arguments of the call
    ret,           \* what the call returned or raised
    written,       \* the output files written so far
    prPc,          \* where a call of process_pdbs stands, "idle" outside one
    result_1,      \* its local result_1
    result_2,      \* its local result_2
    final_result,  \* its local final_result
    idsKind        \* the type of what read_chainids returned to the last
                   \* correct_equal_chain_segids: "list", "tuple", "str"

idxVars == <<ilPc, nmodels_arg, ncores_arg, spc, rem, core, ilList>>
hdrVars == <<hdrPc, hdrLine, hdrMain, hdrSub>>
cfgVars == <<cfgPc, cfgLines, cfgPos, cfgCount, cfgOpen, cfgSections, cfgVals,
             cfgResult>>
pathVars == <<wdStack, wdArgs, wdUnwound, ppLast, ppName, ppSeen>>
tqVars == <<tqPc, tqMinutes, tqOut>>
queueVars == <<qjobs>>
gmVars == <<gmPc, gmName, gmSuffix, gmOut>>
prepVars == <<chainsCount, assigned, fn, argStructs, argFlags, ret, written,
              prPc, result_1, result_2, final_result, idsKind>>
moreVars == <<gmVars, prepVars>>
extVars == <<hdrVars, cfgVars, pathVars, tqVars, queueVars, moreVars>>
procVars == <<pc, step, cwd, exc, logged>>
fsVars == <<manifests, files>>
modVars == <<order, path, previous_io, cns_script, cns_defaults,
             cns_recipe_path, defaults_path>>
runVars == <<nmodels, ncores, index_list, jobs, not_found>>
schedVars == <<sched, budget>>
pipeVars == <<procVars, fsVars, modVars, runVars, schedVars>>
vars == <<idxVars, pipeVars, extVars>>

(***************************************************************************)
(* get_index_list                                                          *)
(***************************************************************************)

\* One pass of the loop body forgetting the remainder.
IndexStepNoRemainder(last, c, s, r) == last + s

\* One pass of the loop body with the test off by one.
IndexStepOffByOne(last, c, s, r) == IF c <= r THEN last + s + 1 ELSE last + s

\* One pass of the loop body: the value appended to index_list.
IndexStep(last, c, s, r) == IF c < r THEN last + s + 1 ELSE last + s

RECURSIVE IndexLoop(_, _, _, _, _)
IndexLoop(list, c, n, s, r) ==
    IF c >= n THEN list
    ELSE IndexLoop(Append(list, IndexStep(list[Len(list)], c, s, r)),
                   c + 1, n, s, r)

\* get_index_list(nmodels, ncores), for ncores >= 1.
get_index_list(n, c) == IndexLoop(<<0>>, 0, c, n \div c, n % c)

IdxInit ==
    /\ ilPc = "call"
    /\ nmodels_arg \in 0..MaxN
    /\ ncores_arg \in 1..MaxC
    /\ spc = 0
    /\ rem = 0
    /\ core = 0
    /\ ilList = <<>>

IdxIdle ==
    /\ ilPc = "idle"
    /\ nmodels_arg = 0
    /\ ncores_arg = 1
    /\ spc = 0
    /\ rem = 0
    /\ core = 0
    /\ ilList = <<>>

\* spc = nmodels // ncores; rem = nmodels % ncores; index_list = [0]
IdxEnter ==
    /\ ilPc = "call"
    /\ spc' = nmodels_arg \div ncores_arg
    /\ rem' = nmodels_arg % ncores_arg
    /\ ilList' = <<0>>
    /\ core' = 0
    /\ ilPc' = "loop"
    /\ UNCHANGED <<nmodels_arg, ncores_arg>>

\* one iteration of `for core in range(ncores)`
IdxIterate ==
    /\ ilPc = "loop"
    /\ core < ncores_arg
    /\ ilList' = Append(ilList, IndexStep(ilList[Len(ilList)], core, spc, rem))
    /\ core' = core + 1
    /\ UNCHANGED <<ilPc, nmodels_arg, ncores_arg, spc, rem>>

\* return index_list
IdxReturn ==
    /\ ilPc = "loop"
    /\ core >= ncores_arg
    /\ ilPc' = "returned"
    /\ UNCHANGED <<nmodels_arg, ncores_arg, spc, rem, core, ilList>>


(***************************************************************************)
(* Paths.  A path is a sequence of components, a component a record; an    *)
(* absolute path starts with the root component.                           *)
(***************************************************************************)
Root == [kind |-> "root", ord |-> 0]
RunComponent == [kind |-> "run", ord |-> 0]

\* haddock.defaults.TOPOLOGY_PATH, as one path component
TOPOLOGY_PATH == [kind |-> "TOPOLOGY_PATH", ord |-> 0]

\* f"{MODULE_PATH_NAME}{k}", as one path component
ModulePathName(k) == [kind |-> "MODULE_PATH_NAME", ord |-> k]

IsAbsolute(p) == Len(p) > 0 /\ p[1] = Root

\* Path.resolve() / Path.absolute(): a relative path is taken from the
\* current working directory (symbolic links are not modelled).
Resolve(p, wd) == IF IsAbsolute(p) THEN p ELSE wd \o p

\* Path.parent
Parent(p) == IF Len(p) <= 1 THEN p ELSE SubSeq(p, 1, Len(p) - 1)

\* The directory of the run, which holds one directory per step.
RunDir == <<Root, RunComponent>>

\* The working directory the controller gives the step of ordinal k.
StepPath(k) == IF k = 0 THEN Append(RunDir, TOPOLOGY_PATH)
               ELSE Append(RunDir, ModulePathName(k))

\* previous_path with the ordinal itself in place of its predecessor.
PreviousPathSameOrdinal(o, p, wd) ==
    IF o > 1 THEN Append(Parent(Resolve(p, wd)), ModulePathName(o))
    ELSE IF o = 1 THEN Append(Parent(Resolve(p, wd)), TOPOLOGY_PATH)
    ELSE p

\* BaseHaddockModule.previous_path
previous_path(o, p, wd) ==
    IF o > 1 THEN Append(Parent(Resolve(p, wd)), ModulePathName(o - 1))
    ELSE IF o = 1 THEN Append(Parent(Resolve(p, wd)), TOPOLOGY_PATH)
    ELSE p

(***************************************************************************)
(* The file system: the manifest (MODULE_IO_FILE) of each directory, and   *)
(* the output files of the jobs.                                           *)
(***************************************************************************)
NoManifest == [present |-> FALSE, models |-> 0]
Manifest(n) == [present |-> TRUE, models |-> n]

ManifestDirs == {StepPath(k) : k \in 0..MaxSteps}

\* (dir / MODULE_IO_FILE).is_file()
IsFile(dir) == dir \in DOMAIN manifests /\ manifests[dir].present

\* ModuleIO(): an empty manifest
EmptyIO == 0

\* BaseHaddockModule._load_previous_io: the models of the previous manifest
\* when the file exists, an empty ModuleIO otherwise.
load_previous_io(o, p, wd) ==
    IF o = 0 THEN EmptyIO
    ELSE IF IsFile(previous_path(o, p, wd))
         THEN manifests[previous_path(o, p, wd)].models
         ELSE EmptyIO

(***************************************************************************)
(* BaseHaddockModule.__init__                                              *)
(***************************************************************************)
\* What a constructor argument gives when it is opened: "" is the default
\* (no path at all), "ok" opens, "missing" raises FileNotFoundError,
\* "unreadable" raises another OSError (PermissionError, IsADirectoryError).
ArgKinds == {"", "ok", "missing", "unreadable"}

\* `if cns_script:` / `if cns_defaults:`: the attribute is set only for a
\* non-empty argument.
AttrOf(arg) == IF arg = "" THEN "unset" ELSE arg

\* The exception an attribute raises when it is read and opened inside
\* `try: ... except FileNotFoundError: raise RecipeError(...)`.
OpenOutcome(attr) ==
    CASE attr = "unset" -> "AttributeError"
      [] attr = "missing" -> "RecipeError"
      [] attr = "unreadable" -> "OSError"
      [] OTHER -> "none"

\* The exception that ends __init__, "none" when it returns.
InitOutcome(script, defaults) ==
    IF OpenOutcome(AttrOf(script)) # "none"
    THEN OpenOutcome(AttrOf(script))
    ELSE OpenOutcome(AttrOf(defaults))

NoLog == [kind |-> "none", names |-> <<>>]

\* The controller instantiates the module of ordinal `step`:
\* BaseHaddockModule.__init__(order, path, cns_script, cns_defaults).
Construct ==
    /\ pc = "construct"
    /\ \E script \in ArgKinds, defaults \in ArgKinds :
        /\ order' = step
        /\ path' = StepPath(step)
        /\ previous_io' = load_previous_io(step, StepPath(step), cwd)
        /\ cns_script' = script
        /\ cns_defaults' = defaults
        /\ cns_recipe_path' = AttrOf(script)
        /\ defaults_path' = AttrOf(defaults)
        /\ exc' = InitOutcome(script, defaults)
        /\ pc' = IF InitOutcome(script, defaults) = "none"
                 THEN "constructed" ELSE "aborted"
    /\ UNCHANGED <<step, cwd, logged, fsVars, runVars, schedVars, idxVars, extVars>>


(***************************************************************************)
(* BaseHaddockModule.finish_with_error                                     *)
(***************************************************************************)
Message(kind, names) == [kind |-> kind, names |-> names]
EmptyMessage == Message("", <<>>)

\* finish_with_error that logs and returns to its caller.
FinishWithErrorNoRaise(message) ==
    [logged |-> IF message = EmptyMessage
                THEN Message("Module has failed", <<>>) ELSE message,
     exc |-> "none"]

\* finish_with_error(message): what it logs and what it raises.
finish_with_error(message) ==
    [logged |-> IF message = EmptyMessage
                THEN Message("Module has failed", <<>>) ELSE message,
     exc |-> "SystemExit"]

(***************************************************************************)
(* The setup phase, ordinal 0.  Its run is outside the sources: it leaves  *)
(* a manifest of some number of models in its directory, or none.          *)
(***************************************************************************)
SetupRun ==
    /\ pc = "constructed"
    /\ order = 0
    /\ \E n \in 0..MaxModels, wrote \in BOOLEAN :
        manifests' = IF wrote THEN [manifests EXCEPT ![path] = Manifest(n)]
                     ELSE manifests
    /\ step' = 1
    /\ pc' = "construct"
    /\ UNCHANGED <<cwd, exc, logged, files, modVars, runVars, schedVars, idxVars, extVars>>

(***************************************************************************)
(* HaddockModule._run of the alascan step                                  *)
(***************************************************************************)
Terminal == {"done", "failed", "timed_out"}
Outstanding == {"submitted", "running"}

\* "alascan_" + str(core) + ".scan"
OutputName(c) == [prefix |-> "alascan_", core |-> c, suffix |-> ".scan"]

\* The file of a job of the step of ordinal k.
OutputFile(k, name) == [step |-> k, name |-> name]

\* models = self.previous_io.retrieve_models(individualize=True), and
\* finish_with_error(e) when it raises.
Retrieve ==
    /\ pc = "constructed"
    /\ order >= 1
    /\ \E raises \in BOOLEAN :
        IF raises
        THEN /\ logged' = finish_with_error(Message("exception", <<>>)).logged
             /\ exc' = finish_with_error(Message("exception", <<>>)).exc
             /\ pc' = IF exc' = "none" THEN "partition" ELSE "aborted"
             /\ UNCHANGED nmodels
        ELSE /\ nmodels' = previous_io
             /\ pc' = "partition"
             /\ UNCHANGED <<logged, exc>>
    /\ UNCHANGED <<step, cwd, fsVars, modVars, ncores, index_list, jobs,
                   not_found, schedVars, idxVars, extVars>>

\* The statement _run goes to with the jobs built, skipping the Scheduler.
AfterBuildSkipsRun == "check"

\* The statement _run goes to with the jobs built: the Scheduler is made
\* and run before anything else.
AfterBuild == "schedule"

\* The job of one core with a slice that ends one model too far.
ScanJobSliceEndsLate(c, il) ==
    [output |-> OutputName(c), lo |-> il[c + 1], hi |-> il[c + 2] + 1,
     status |-> "pending", age |-> 0]

\* The job of one core: its output name and its slice of the models,
\* models[index_list[core]:index_list[core + 1]].
ScanJob(c, il) ==
    [output |-> OutputName(c), lo |-> il[c + 1], hi |-> il[c + 2],
     status |-> "pending", age |-> 0]

\* ncores = parse_ncores(...); index_list = get_index_list(nmodels, ncores);
\* the loop that builds alascan_jobs.  parse_ncores is a library call: its
\* answer is an input, some number of cores >= 1.
Build ==
    /\ pc = "partition"
    /\ \E nc \in 1..MaxCores :
        /\ ncores' = nc
        /\ index_list' = get_index_list(nmodels, nc)
        /\ jobs' = [jobs EXCEPT ![step] =
                      [i \in 1..nc |-> ScanJob(i - 1, index_list')]]
    /\ sched' = "idle"
    /\ pc' = AfterBuild
    /\ UNCHANGED <<step, cwd, exc, logged, fsVars, modVars, nmodels,
                   not_found, budget, idxVars, extVars>>

\* contact_engine = Scheduler(alascan_jobs, ncores=ncores);
\* contact_engine.run() is entered.
SchedulerStart ==
    /\ pc = "schedule"
    /\ sched = "idle"
    /\ budget' = ncores
    /\ sched' = "running"
    /\ UNCHANGED <<procVars, fsVars, modVars, runVars, idxVars, extVars>>

\* The loop over alascan_jobs that fills not_found: the names of the
\* outputs that do not exist, in the order of the jobs.
NotFound(js, k, fs) ==
    LET missing == SelectSeq(js, LAMBDA j : OutputFile(k, j.output) \notin fs)
    IN [i \in 1..Len(missing) |-> missing[i].output]

\* The text that opens the message about the missing outputs.
NotGenerated == "Several alascan files were not generated:"

\* The check that all the jobs have been completed, and
\* finish_with_error when one output is missing.
Check ==
    /\ pc = "check"
    /\ not_found' = NotFound(jobs[step], step, files)
    /\ IF not_found' # <<>>
       THEN LET r == finish_with_error(
                       Message(NotGenerated, not_found'))
            IN /\ logged' = r.logged
               /\ exc' = r.exc
               /\ pc' = IF r.exc = "none" THEN "analysis" ELSE "aborted"
       ELSE /\ pc' = "analysis"
            /\ UNCHANGED <<logged, exc>>
    /\ UNCHANGED <<step, cwd, fsVars, modVars, nmodels, ncores, index_list,
                   jobs, schedVars, idxVars, extVars>>

\* The analysis, then self.output_models = ...; self.export_output_models():
\* the manifest of the step is written in its directory, and the controller
\* goes to the next step.
Export ==
    /\ pc = "analysis"
    /\ manifests' = [manifests EXCEPT ![path] = Manifest(nmodels)]
    /\ IF step < MaxSteps
       THEN /\ step' = step + 1
            /\ pc' = "construct"
       ELSE /\ pc' = "finished"
            /\ UNCHANGED step
    /\ UNCHANGED <<cwd, exc, logged, files, modVars, runVars, schedVars, idxVars, extVars>>


(***************************************************************************)
(* The Scheduler: run(jobs, concurrency_budget).  It keeps at most         *)
(* `budget` jobs outstanding, polls them, forces a job that is still       *)
(* outstanding at the ceiling to timed_out, and returns when every job is  *)
(* terminal.                                                               *)
(***************************************************************************)
NumOutstanding(js) ==
    Cardinality({i \in 1..Len(js) : js[i].status \in Outstanding})

AllTerminal(js) == \A i \in 1..Len(js) : js[i].status \in Terminal

\* A pool that takes every job at once.
SlotAlwaysFree(js, b) == TRUE

\* A slot of the pool is free.
SlotFree(js, b) == NumOutstanding(js) < b

\* A poll that never gives up on a job.
TimedOutNever(j) == FALSE

\* The poll finds the job still outstanding at the ceiling.
TimedOut(j) == j.status \in Outstanding /\ j.age + 1 >= Ceiling

\* One poll of one job.
PollJob(j) ==
    IF j.status \notin Outstanding THEN j
    ELSE IF TimedOut(j) THEN [j EXCEPT !.status = "timed_out", !.age = 0]
    ELSE [j EXCEPT !.age = IF j.age + 1 >= Ceiling THEN Ceiling ELSE j.age + 1]

\* run() may return.
MayReturn(js) == AllTerminal(js)

\* The next pending job is submitted when a slot is free.
SchedSubmit ==
    /\ pc = "schedule"
    /\ sched = "running"
    /\ SlotFree(jobs[step], budget)
    /\ \E i \in 1..Len(jobs[step]) :
        /\ jobs[step][i].status = "pending"
        /\ \A h \in 1..(i - 1) : jobs[step][h].status # "pending"
        /\ jobs' = [jobs EXCEPT ![step][i].status = "submitted"]
    /\ UNCHANGED <<procVars, fsVars, modVars, nmodels, ncores, index_list,
                   not_found, schedVars, idxVars, extVars>>

\* One poll of the outstanding jobs.
SchedPoll ==
    /\ pc = "schedule"
    /\ sched = "running"
    /\ NumOutstanding(jobs[step]) > 0
    /\ jobs' = [jobs EXCEPT ![step] =
                  [i \in 1..Len(jobs[step]) |-> PollJob(jobs[step][i])]]
    /\ UNCHANGED <<procVars, fsVars, modVars, nmodels, ncores, index_list,
                   not_found, schedVars, idxVars, extVars>>

\* run() returns to _run.
SchedReturn ==
    /\ pc = "schedule"
    /\ sched = "running"
    /\ MayReturn(jobs[step])
    /\ sched' = "returned"
    /\ pc' = "check"
    /\ UNCHANGED <<step, cwd, exc, logged, fsVars, modVars, runVars, budget,
                   idxVars, extVars>>

(***************************************************************************)
(* The jobs, each a worker of the backend that runs on its own.            *)
(***************************************************************************)
JobStart ==
    /\ \E k \in 1..MaxSteps : \E i \in 1..Len(jobs[k]) :
        /\ jobs[k][i].status = "submitted"
        /\ jobs' = [jobs EXCEPT ![k][i].status = "running"]
    /\ UNCHANGED <<procVars, fsVars, modVars, nmodels, ncores, index_list,
                   not_found, schedVars, idxVars, extVars>>

\* The job ends well and has written its output file.
JobDone ==
    /\ \E k \in 1..MaxSteps : \E i \in 1..Len(jobs[k]) :
        /\ jobs[k][i].status = "running"
        /\ jobs' = [jobs EXCEPT ![k][i].status = "done", ![k][i].age = 0]
        /\ files' = files \cup {OutputFile(k, jobs[k][i].output)}
    /\ UNCHANGED <<procVars, manifests, modVars, nmodels, ncores, index_list,
                   not_found, schedVars, idxVars, extVars>>

\* The job dies without its output file.
JobFail ==
    /\ \E k \in 1..MaxSteps : \E i \in 1..Len(jobs[k]) :
        /\ jobs[k][i].status = "running"
        /\ jobs' = [jobs EXCEPT ![k][i].status = "failed", ![k][i].age = 0]
    /\ UNCHANGED <<procVars, fsVars, modVars, nmodels, ncores, index_list,
                   not_found, schedVars, idxVars, extVars>>

(***************************************************************************)
(* Text.  A string is the sequence of its characters.                      *)
(***************************************************************************)
Letters == {"a", "b", "c", "d", "e", "f", "g", "h", "i", "j", "k", "l", "m",
            "n", "o", "p", "q", "r", "s", "t", "u", "v", "w", "x", "y", "z"}

DigitChars == <<"0", "1", "2", "3", "4", "5", "6", "7", "8", "9">>

DigitSet == {DigitChars[i] : i \in 1..Len(DigitChars)}

\* The characters of an identifier: ASCII letters, digits and underscore.
WordChars == Letters \cup DigitSet \cup {"_"}

(***************************************************************************)
(* The header patterns of the configuration reader.  A match is the tuple  *)
(* of its groups, no match the empty tuple.                                *)
(***************************************************************************)
NoMatch == <<>>

\* A class of characters that takes the dot for part of an identifier.
IsWordCharOrDot(c) == c \in WordChars \cup {"."}

IsWordChar(c) == c \in WordChars

\* The index after the longest run of identifier characters from index i.
RECURSIVE ScanWord(_, _)
ScanWord(line, i) ==
    IF i <= Len(line) /\ IsWordChar(line[i])
    THEN ScanWord(line, i + 1)
    ELSE i

\* The index after the longest run of ".identifier" groups from index i.
RECURSIVE ScanDotted(_, _)
ScanDotted(line, i) ==
    IF i <= Len(line) /\ line[i] = "." /\ ScanWord(line, i + 1) > i + 1
    THEN ScanDotted(line, ScanWord(line, i + 1))
    ELSE i

\* _main_header_re: ^\[IDENTIFIER\]$, one group.
MainHeaderMatch(line) ==
    IF Len(line) >= 1 /\ line[1] = "["
    THEN LET e == ScanWord(line, 2)
         IN IF e > 2 /\ e = Len(line) /\ line[e] = "]"
            THEN <<SubSeq(line, 2, e - 1)>>
            ELSE NoMatch
    ELSE NoMatch

\* _sub_header_re: ^\[IDENTIFIER(\.IDENTIFIER)+\]$, two groups: the parent
\* and the rest of the path with its leading dot.
SubHeaderMatch(line) ==
    IF Len(line) >= 1 /\ line[1] = "["
    THEN LET e == ScanWord(line, 2)
             d == ScanDotted(line, e)
         IN IF e > 2 /\ d > e /\ d = Len(line) /\ line[d] = "]"
            THEN <<SubSeq(line, 2, e - 1), SubSeq(line, e, d - 1)>>
            ELSE NoMatch
    ELSE NoMatch

\* The characters the lines are made of, and the lines of the test suite
\* of the patterns.
HeaderAlphabet == {"[", "]", ".", "a", "1", "_", " ", "=", "é"}

HeaderTestLines ==
    {
      <<"[", "h", "e", "a", "d", "e", "r", "]">>,
      <<"[", "u", "n", "d", "e", "r", "_", "s", "c", "o", "r", "e", "s",
        "_", "w", "o", "r", "k", "]">>,
      <<"[", "a", "n", "o", "t", "h", "e", "r", ".", "h", "e", "a", "d",
        "e", "r", "]">>,
      <<"[", "a", "n", "o", "t", "h", "e", "r", ".", "h", "e", "a", "d",
        "e", "r", "_", "2", "]">>,
      <<"[", "a", "n", "o", "t", "h", "e", "r", ".", "h", "e", "a", "d",
        "e", "r", ".", "h", "3", "]">>,
      <<"[", "[", "h", "e", "a", "d", "e", "r", "]", "]">>,
      <<"[", "h", "é", "à", "d", "e", "r", "]">>,
      <<"v", "a", "l", "u", "e", " ", "=", " ", "\"", "s", "o", "m", "e",
        "_", "s", "t", "r", "i", "n", "g", "\"">>,
      <<"[", "h", "e", "a", "d", "e", "r", " ", "w", "i", "t", "h", " ",
        "s", "p", "a", "c", "e", "s", "]">>,
      <<"[", "n", "o", "t", ".", "v", "a", "l", "i", "d", " ", "w", "i",
        "t", "h", " ", "s", "p", "a", "c", "e", "s", "]">>,
      <<"[", "s", "i", "n", "g", "l", "e", "]">>
    }

HeaderLines ==
    HeaderTestLines
        \cup UNION {[1..n -> HeaderAlphabet] : n \in 0..MaxLineLen}

HdrIdle ==
    /\ hdrPc = "idle"
    /\ hdrLine = <<>>
    /\ hdrMain = NoMatch
    /\ hdrSub = NoMatch

HdrInit ==
    /\ hdrPc = "call"
    /\ hdrLine \in HeaderLines
    /\ hdrMain = NoMatch
    /\ hdrSub = NoMatch

\* group = _main_header_re.match(line)
HdrMain ==
    /\ hdrPc = "call"
    /\ hdrMain' = MainHeaderMatch(hdrLine)
    /\ hdrPc' = "main"
    /\ UNCHANGED <<hdrLine, hdrSub>>

\* group = _sub_header_re.match(line)
HdrSub ==
    /\ hdrPc = "main"
    /\ hdrSub' = SubHeaderMatch(hdrLine)
    /\ hdrPc' = "done"
    /\ UNCHANGED <<hdrLine, hdrMain>>

(***************************************************************************)
(* The configuration loader: load(text) -> Config Tree.  It reads the text *)
(* line by line; a top-level header opens a new instance of its name, a    *)
(* nested header a section under the last instance of its parent, and a    *)
(* key = value line sets a parameter of the section that is open.  The     *)
(* tree is the set of its sections, each a path, and the parameters set    *)
(* in them.                                                                *)
(***************************************************************************)
\* str(n) of a non-negative integer.
RECURSIVE Digits(_)
Digits(n) ==
    IF n < 10
    THEN <<DigitChars[n + 1]>>
    ELSE Digits(n \div 10) \o <<DigitChars[(n % 10) + 1]>>

RECURSIVE StripLeft(_)
StripLeft(s) ==
    IF Len(s) >= 1 /\ s[1] = " " THEN StripLeft(Tail(s)) ELSE s

RECURSIVE StripRight(_)
StripRight(s) ==
    IF Len(s) >= 1 /\ s[Len(s)] = " "
    THEN StripRight(SubSeq(s, 1, Len(s) - 1))
    ELSE s

Strip(s) == StripRight(StripLeft(s))

\* Index of the first occurrence of character c in s, 0 when there is none.
FirstIndex(s, c) ==
    IF \E i \in 1..Len(s) : s[i] = c
    THEN CHOOSE i \in 1..Len(s) :
            s[i] = c /\ \A h \in 1..(i - 1) : s[h] # c
    ELSE 0

\* A comment begins with # and runs to the end of the line.
ProcessLine(line) ==
    LET h == FirstIndex(line, "#")
    IN Strip(IF h = 0 THEN line ELSE SubSeq(line, 1, h - 1))

\* ".w.x" -> <<"w", "x">>, each segment a string.
RECURSIVE SplitDots(_)
SplitDots(rest) ==
    IF rest = <<>>
    THEN <<>>
    ELSE LET e == ScanWord(rest, 2)
         IN <<SubSeq(rest, 2, e - 1)>> \o SplitDots(SubSeq(rest, e, Len(rest)))

IsKeyValue(line) == FirstIndex(line, "=") > 1

KeyOf(line) == Strip(SubSeq(line, 1, FirstIndex(line, "=") - 1))

ValueOf(line) == Strip(SubSeq(line, FirstIndex(line, "=") + 1, Len(line)))

CountOf(count, name) == IF name \in DOMAIN count THEN count[name] ELSE 0

\* A re-declaration that adds to the instance already there.
NextInstanceMerged(count) == IF count = 0 THEN 1 ELSE count

\* The repetition counter: every declaration of a name is a new instance.
NextInstance(count) == count + 1

\* A nested section that goes to the first instance whatever is open.
ParentInstanceFirst(count) == 1

\* The instance of the parent a nested section attaches to: the last one.
ParentInstance(count) == count

\* Every section numbered, also the one declared once.
RenderKeyNumbered(name, inst, count) == name \o <<".">> \o Digits(inst)

\* The key of an instance in the tree: name.1, name.2, ... for a name
\* that repeats, the bare name for a name declared once.
RenderKey(name, inst, count) ==
    IF count = 1 THEN name ELSE name \o <<".">> \o Digits(inst)

\* A component of a section path while the text is read.
Top(name, inst) == [name |-> name, inst |-> inst]

Sub(name) == [name |-> name, inst |-> 0]

Prefixes(p) == {SubSeq(p, 1, n) : n \in 1..Len(p)}

RenderPath(p, count) ==
    [i \in 1..Len(p) |->
        IF i = 1
        THEN RenderKey(p[1].name, p[1].inst, CountOf(count, p[1].name))
        ELSE p[i].name]

NoVals == [x \in {} |-> <<>>]

RenderTree(sections, vals, count) ==
    [sections |-> {RenderPath(p, count) : p \in sections},
     vals |-> LET dom == {[sec |-> RenderPath(x.sec, count), key |-> x.key] :
                             x \in DOMAIN vals}
              IN [y \in dom |->
                    vals[CHOOSE x \in DOMAIN vals :
                            /\ RenderPath(x.sec, count) = y.sec
                            /\ x.key = y.key]]]

NoTree == [sections |-> {}, vals |-> NoVals]

\* The lines the texts are made of, and the three texts of the loader's
\* test, with short names and one-line values.
CfgLineSet ==
    { <<"[", "h", "]">>, <<"[", "g", "]">>, <<"[", "h", ".", "w", "]">>,
      <<"[", "h", ".", "w", ".", "x", "]">>, <<"a", "=", "1">>,
      <<"a", "=", "2">>, <<"b", "=", "2">> }

CfgExample1 ==
    << <<>>, <<"#", " ", "c">>, <<"a", "=", "1">>, <<"[", "h", "]">>,
      <<"a", " ", "=", " ", "2">>, <<>>,
       <<"[", "h", ".", "w", "]">>, <<"b", "=", "1">>, <<>>,
       <<"[", "h", "]", " ", "#", "c">>, <<"[", "h", ".", "w", "]">>,
         <<"c", "=", "5">> >>

CfgExample2 ==
    << <<"a", "=", "1">>, <<"[", "g", "]">>, <<"b", "=", "2">>,
      <<"[", "g", ".", "w", "]">>, <<"a", "=", "1">>,
      <<"[", "g", ".", "w", ".", "x", "]">>, <<"b", "=", "2">> >>

CfgExample3 ==
    << <<>>, <<"a", "=", "1">>, <<"[", "h", "]">>, <<"[", "h", ".", "w", "]">>,
      <<"a", "=", "2">>, <<"b", "=", "2">> >>

\* A text with a malformed section header.
CfgMalformed == << <<"a", "=", "1">>, <<"[", "[", "h", "]", "]">> >>

\* Every nested header of the text comes after a header of its parent.
ParentsDeclared(text) ==
    \A i \in 1..Len(text) :
        LET m == SubHeaderMatch(ProcessLine(text[i]))
        IN m # NoMatch =>
            \E h \in 1..(i - 1) : MainHeaderMatch(ProcessLine(text[h])) = <<m[1]>>

CfgTexts ==
    {CfgExample1, CfgExample2, CfgExample3, CfgMalformed}
        \cup {text \in UNION {[1..n -> CfgLineSet] : n \in 0..MaxLines} :
                ParentsDeclared(text)}

CfgIdle ==
    /\ cfgPc = "idle"
    /\ cfgLines = <<>>
    /\ cfgPos = 0
    /\ cfgCount = <<>>
    /\ cfgOpen = <<>>
    /\ cfgSections = {}
    /\ cfgVals = NoVals
    /\ cfgResult = NoTree

\* load(text) is called.
CfgInit ==
    /\ cfgPc = "read"
    /\ cfgLines \in CfgTexts
    /\ cfgPos = 1
    /\ cfgCount = <<>>
    /\ cfgOpen = <<>>
    /\ cfgSections = {}
    /\ cfgVals = NoVals
    /\ cfgResult = NoTree

CfgLine == ProcessLine(cfgLines[cfgPos])

CfgReading == cfgPc = "read" /\ cfgPos <= Len(cfgLines)

\* An empty line or a line that is only a comment.
CfgSkip ==
    /\ CfgReading
    /\ CfgLine = <<>>
    /\ cfgPos' = cfgPos + 1
    /\ UNCHANGED <<cfgPc, cfgLines, cfgCount, cfgOpen, cfgSections, cfgVals,
                   cfgResult>>

\* [name]: a new instance of name is opened.
CfgMainHeader ==
    /\ CfgReading
    /\ MainHeaderMatch(CfgLine) # NoMatch
    /\ LET name == MainHeaderMatch(CfgLine)[1]
           k == NextInstance(CountOf(cfgCount, name))
       IN /\ cfgCount' = [n \in DOMAIN cfgCount \cup {name} |->
                            IF n = name THEN k ELSE cfgCount[n]]
          /\ cfgOpen' = <<Top(name, k)>>
          /\ cfgSections' = cfgSections \cup {<<Top(name, k)>>}
    /\ cfgPos' = cfgPos + 1
    /\ UNCHANGED <<cfgPc, cfgLines, cfgVals, cfgResult>>

\* [parent.path]: the section parent.path of the last instance of parent is
\* opened, and made with the sections above it when it is not there.
CfgSubHeader ==
    /\ CfgReading
    /\ SubHeaderMatch(CfgLine) # NoMatch
    /\ LET m == SubHeaderMatch(CfgLine)
           k == ParentInstance(CountOf(cfgCount, m[1]))
           segs == SplitDots(m[2])
           sec == <<Top(m[1], k)>> \o [i \in 1..Len(segs) |-> Sub(segs[i])]
       IN /\ cfgOpen' = sec
          /\ cfgSections' = cfgSections \cup Prefixes(sec)
    /\ cfgPos' = cfgPos + 1
    /\ UNCHANGED <<cfgPc, cfgLines, cfgCount, cfgVals, cfgResult>>

\* key = value: a parameter of the open section, or of the root mapping
\* when no section is open; a later value of the same key replaces it.
CfgKeyValue ==
    /\ CfgReading
    /\ CfgLine # <<>>
    /\ MainHeaderMatch(CfgLine) = NoMatch
    /\ SubHeaderMatch(CfgLine) = NoMatch
    /\ IsKeyValue(CfgLine)
    /\ LET new == [sec |-> cfgOpen, key |-> KeyOf(CfgLine)]
       IN cfgVals' = [x \in DOMAIN cfgVals \cup {new} |->
                        IF x = new THEN ValueOf(CfgLine) ELSE cfgVals[x]]
    /\ cfgPos' = cfgPos + 1
    /\ UNCHANGED <<cfgPc, cfgLines, cfgCount, cfgOpen, cfgSections, cfgResult>>

\* Any other line is a syntax error of the text.
CfgSyntaxError ==
    /\ CfgReading
    /\ CfgLine # <<>>
    /\ MainHeaderMatch(CfgLine) = NoMatch
    /\ SubHeaderMatch(CfgLine) = NoMatch
    /\ ~IsKeyValue(CfgLine)
    /\ cfgPc' = "error"
    /\ UNCHANGED <<cfgLines, cfgPos, cfgCount, cfgOpen, cfgSections, cfgVals,
                   cfgResult>>

\* The end of the text: the tree is returned under its keys.
CfgFinish ==
    /\ cfgPc = "read"
    /\ cfgPos > Len(cfgLines)
    /\ cfgResult' = RenderTree(cfgSections, cfgVals, cfgCount)
    /\ cfgPc' = "done"
    /\ UNCHANGED <<cfgLines, cfgPos, cfgCount, cfgOpen, cfgSections, cfgVals>>

(***************************************************************************)
(* The names of the directories as text, working_directory, and            *)
(* previous_path called at any moment.                                     *)
(***************************************************************************)
\* haddock.defaults.MODULE_PATH_NAME: the fixed prefix of a step directory.
MODULE_PATH_NAME == <<"s", "t", "e", "p", "_">>

\* The name of a path component, as the code writes it:
\* f"{MODULE_PATH_NAME}{n}" for a step directory.
NameText(c) ==
    IF c.kind = "MODULE_PATH_NAME"
    THEN MODULE_PATH_NAME \o Digits(c.ord)
    ELSE IF c.kind = "TOPOLOGY_PATH" THEN <<"t", "o", "p", "o", "l", "o", "g", "y">>
    ELSE IF c.kind = "run" THEN <<"r", "u", "n">>
    ELSE <<"/">>

\* n written with at least w digits, zeros in front.
ZeroPad(n, w) ==
    LET d == Digits(n)
    IN IF Len(d) >= w THEN d ELSE [i \in 1..(w - Len(d)) |-> "0"] \o d

\* The name of the directory of step k: the fixed prefix plus the ordinal
\* zero-padded to w digits.
StepDirName(k, w) == MODULE_PATH_NAME \o ZeroPad(k, w)

\* A working directory given relative to the directory of the run.
RelativeStepPath(k) ==
    IF k = 0 THEN <<TOPOLOGY_PATH>> ELSE <<ModulePathName(k)>>

\* An exit that leaves the process where the body left it.
KeepDirectory(prev_cwd, now) == now

\* finally: os.chdir(prev_cwd): the directory of the process after the block.
ChdirOnExit(prev_cwd, now) == prev_cwd

PathIdle ==
    /\ wdStack = <<>>
    /\ wdArgs = <<>>
    /\ wdUnwound = <<>>
    /\ ppLast = <<>>
    /\ ppName = <<>>
    /\ ppSeen = {}

\* with working_directory(p): prev_cwd = Path.cwd(); os.chdir(p)
PathEnter ==
    /\ exc = "none"
    /\ Len(wdStack) < MaxDepth
    /\ \E p \in {path, RunDir} :
        /\ wdStack' = Append(wdStack, cwd)
        /\ wdArgs' = Append(wdArgs, p)
        /\ cwd' = Resolve(p, cwd)
    /\ UNCHANGED <<order, path, exc, logged, wdUnwound, ppLast, ppName, ppSeen>>

\* The body of the innermost open block raises: finish_with_error logs and
\* raises SystemExit, any other statement may raise an exception of its
\* own.  From then on the process only leaves the blocks that are open.
PathRaise ==
    /\ exc = "none"
    /\ Len(wdStack) > 0
    /\ \/ /\ exc' = finish_with_error(EmptyMessage).exc
          /\ logged' = finish_with_error(EmptyMessage).logged
       \/ /\ exc' = "Exception"
          /\ UNCHANGED logged
    /\ UNCHANGED <<order, path, cwd, wdStack, wdArgs, wdUnwound, ppLast,
                   ppName, ppSeen>>

\* the end of the block, reached normally or by an exception:
\* finally: os.chdir(prev_cwd)
PathExit ==
    /\ Len(wdStack) > 0
    /\ cwd' = ChdirOnExit(wdStack[Len(wdStack)], cwd)
    /\ wdStack' = SubSeq(wdStack, 1, Len(wdStack) - 1)
    /\ wdArgs' = SubSeq(wdArgs, 1, Len(wdArgs) - 1)
    /\ wdUnwound' = IF exc = "none" THEN wdUnwound
                    ELSE Append(wdUnwound, cwd')
    /\ UNCHANGED <<order, path, exc, logged, ppLast, ppName, ppSeen>>

\* self.previous_path()
PathCompute ==
    /\ LET prev == previous_path(order, path, cwd)
       IN /\ ppLast' = prev
          /\ ppName' = NameText(prev[Len(prev)])
          /\ ppSeen' = ppSeen \cup {prev}
    /\ exc = "none"
    /\ UNCHANGED <<order, path, cwd, exc, logged, wdStack, wdArgs, wdUnwound>>

(***************************************************************************)
(* to_torque_time: a duration in minutes as the wall-time token of the     *)
(* queue, hours:minutes:00.                                                *)
(***************************************************************************)
\* Hours that keep their last two digits only.
TorqueHoursTruncated(m) == (m \div 60) % 100

TorqueHours(m) == m \div 60

TorqueMinutes(m) == m % 60

\* f"{hours:02d}:{minutes:02d}:00"
to_torque_time(m) ==
    ZeroPad(TorqueHours(m), 2) \o <<":">> \o ZeroPad(TorqueMinutes(m), 2)
        \o <<":", "0", "0">>

TqIdle ==
    /\ tqPc = "idle"
    /\ tqMinutes = 0
    /\ tqOut = <<>>

TqInit ==
    /\ tqPc = "call"
    /\ tqMinutes \in 0..MaxMinutes
    /\ tqOut = <<>>

TqConvert ==
    /\ tqPc = "call"
    /\ tqOut' = to_torque_time(tqMinutes)
    /\ tqPc' = "done"
    /\ UNCHANGED tqMinutes

(***************************************************************************)
(* The SLURM backend: the answer of the status query is a sequence of      *)
(* fields key=value and of plain words; extract_slurm_status reads the     *)
(* state of the job off it and JOB_STATUS_DIC maps it to a job status.     *)
(***************************************************************************)
Field(k, v) == [key |-> k, val |-> v]

Word(w) == [key |-> w, val |-> ""]

\* The answer for a job the queue knows, in the given state.
ScontrolRecord(state) ==
    << Field("JobId", "42909924"), Field("JobName", "proabc2.job"),
       Field("UserId", "enmr(1095)"), Field("Priority", "1"),
       Field("JobState", state), Field("Reason", "None"),
       Field("RunTime", "00:00:01"), Field("TimeLimit", "04:00:00") >>

\* 'slurm_load_jobs error: Invalid job id specified'
InvalidJobIdAnswer ==
    << Word("slurm_load_jobs"), Word("error:"), Word("Invalid"), Word("job"),
       Word("id"), Word("specified") >>

QueueAnswers == {ScontrolRecord("RUNNING"), InvalidJobIdAnswer}

\* The state in the first JobState field of the answer, ERROR for an
\* answer without one.
extract_slurm_status(out) ==
    IF \E i \in 1..Len(out) : out[i].key = "JobState"
    THEN out[CHOOSE i \in 1..Len(out) :
                /\ out[i].key = "JobState"
                /\ \A h \in 1..(i - 1) : out[h].key # "JobState"].val
    ELSE "ERROR"

\* The entries of JOB_STATUS_DIC that the test suite fixes.
JOB_STATUS_DIC == ("RUNNING" :> "running") @@ ("ERROR" :> "error")

\* A status after which a job is polled all the same.
IsTerminalStatusNever(s) == FALSE

\* error is a terminal status: the job is resolved.
IsTerminalStatus(s) == s = "error"

SubmittedJob == [answer |-> <<>>, raw |-> "", status |-> "submitted", polls |-> 0]

QueueIdle == qjobs = <<>>

QueueInit == qjobs = [i \in 1..MaxQueueJobs |-> SubmittedJob]

\* One poll of one outstanding job: the status query is run, its answer
\* parsed and the status of the job set from it.
QueuePoll ==
    \E i \in 1..Len(qjobs) :
        /\ ~IsTerminalStatus(qjobs[i].status)
        /\ qjobs[i].polls < MaxPolls
        /\ \E answer \in QueueAnswers :
            qjobs' = [qjobs EXCEPT ![i] =
                        [answer |-> answer,
                         raw |-> extract_slurm_status(answer),
                         status |-> JOB_STATUS_DIC[extract_slurm_status(answer)],
                         polls |-> qjobs[i].polls + 1]]

\* The areas this development adds to the pipeline are idle.
(***************************************************************************)
(* get_module_name: the module type of a key of the Config Tree.           *)
(***************************************************************************)
\* The part of the key before its last dot.
GetModuleNameUpToLastDot(key) ==
    LET dots == {i \in 1..Len(key) : key[i] = "."}
    IN IF dots = {}
       THEN key
       ELSE SubSeq(key, 1, (CHOOSE i \in dots : \A h \in dots : h <= i) - 1)

\* The part of the key before its first dot, the key when it has none.
get_module_name(key) ==
    IF FirstIndex(key, ".") = 0
    THEN key
    ELSE SubSeq(key, 1, FirstIndex(key, ".") - 1)

\* Section names without a dot, and the key of the test.
ModuleNames ==
    {<<"h", "e", "a", "d", "e", "r">>}
        \cup UNION {[1..n -> {"h", "1", "_"}] : n \in 1..2}

\* Suffixes of dots and digits, and those of the test.
ModuleSuffixes ==
    {<<".", "1">>, <<".", "1", ".", "1", ".", ".", "1">>}
        \cup UNION {[1..n -> {".", "1", "2"}] : n \in 0..MaxSuffixLen}

GmIdle ==
    /\ gmPc = "idle"
    /\ gmName = <<>>
    /\ gmSuffix = <<>>
    /\ gmOut = <<>>

GmInit ==
    /\ gmPc = "call"
    /\ gmName \in ModuleNames
    /\ gmSuffix \in ModuleSuffixes
    /\ gmOut = <<>>

GmCall ==
    /\ gmPc = "call"
    /\ gmOut' = get_module_name(gmName \o gmSuffix)
    /\ gmPc' = "done"
    /\ UNCHANGED <<gmName, gmSuffix>>

(***************************************************************************)
(* gear/preprocessing.py.  A structure is the list of its coordinate       *)
(* lines; of a line the model keeps the record name, the residue name,     *)
(* the chain ID (one character or blank) and the segID (up to four         *)
(* characters or blank), the last two as text.  The serial numbers, the    *)
(* occupancies and the coordinates, which the renumbering and tidying      *)
(* steps rewrite, are not kept.                                            *)
(***************************************************************************)
MaxAtoms == 2
MaxStructs == 2
MaxCalls == 27

Blank == <<>>

PdbLine(rec, res, chain, seg) ==
    [rec |-> rec, res |-> res, chain |-> chain, seg |-> seg]

\* What a call hands back: a structure, a list of structures, None, or an
\* exception.
Returned(kind, val) == [kind |-> kind, val |-> val]
None == Returned("None", <<>>)
Raised(e) == Returned("raise", <<e>>)

\* string.ascii_uppercase
ascii_uppercase ==
    <<"A", "B", "C", "D", "E", "F", "G", "H", "I", "J", "K", "L", "M",
      "N", "O", "P", "Q", "R", "S", "T", "U", "V", "W", "X", "Y", "Z">>

\* _upper_case = list(string.ascii_uppercase)[::-1]
upper_case == [i \in 1..Len(ascii_uppercase) |->
                  ascii_uppercase[Len(ascii_uppercase) + 1 - i]]

\* _CHAINS = it.cycle(_upper_case): the letter of the (n+1)-th next().
CHAINS(n) == upper_case[(n % Len(upper_case)) + 1]

\* The distinct non-blank members of a sequence of IDs, in the order of
\* their first appearance.
RECURSIVE DistinctIds(_)
DistinctIds(ids) ==
    IF ids = <<>> THEN <<>>
    ELSE LET front == DistinctIds(SubSeq(ids, 1, Len(ids) - 1))
             last == ids[Len(ids)]
         IN IF last = Blank \/ \E i \in 1..Len(front) : front[i] = last
            THEN front ELSE Append(front, last)

\* read_chainids(lines), read_segids(lines)
read_chainids(lines) == DistinctIds([i \in 1..Len(lines) |-> lines[i].chain])
read_segids(lines) == DistinctIds([i \in 1..Len(lines) |-> lines[i].seg])

\* pdb_segxchain.run: the chain ID column takes the first character of the
\* segID field; the segID stays.
pdb_segxchain(lines) ==
    [i \in 1..Len(lines) |->
        [lines[i] EXCEPT !.chain = IF lines[i].seg = Blank THEN Blank
                                   ELSE <<lines[i].seg[1]>>]]

\* pdb_chainxseg.run: the segID field takes the chain ID.
pdb_chainxseg(lines) ==
    [i \in 1..Len(lines) |-> [lines[i] EXCEPT !.seg = lines[i].chain]]

\* pdb_chain.run(lines, chain_id)
pdb_chain(lines, chain_id) ==
    [i \in 1..Len(lines) |-> [lines[i] EXCEPT !.chain = <<chain_id>>]]

\* solve_no_chainID_no_segID(lines) when _CHAINS has yielded n letters:
\* the lines returned and whether next(_CHAINS) was called.
solve_no_chainID_no_segID(lines, n) ==
    LET chainids == read_chainids(lines)
        segids == read_segids(lines)
    IN IF chainids = <<>> /\ segids # <<>>
       THEN [lines |-> pdb_segxchain(lines), advanced |-> FALSE]
       ELSE IF chainids # <<>> /\ segids = <<>>
       THEN [lines |-> pdb_chainxseg(lines), advanced |-> FALSE]
       ELSE IF chainids = <<>> /\ segids = <<>>
       THEN [lines |-> pdb_chainxseg(pdb_chain(lines, CHAINS(n))),
             advanced |-> TRUE]
       ELSE IF chainids # segids
       THEN [lines |-> pdb_chainxseg(lines), advanced |-> FALSE]
       ELSE [lines |-> lines, advanced |-> FALSE]

\* The structures given to solve_no_chainID_no_segID: lines with and
\* without a chain ID, with and without a segID, of one character or four.
SolveLines ==
    {PdbLine("ATOM", "ALA", c, g) :
        c \in {Blank, <<"A">>},
        g \in {Blank, <<"A">>, <<"P", "R", "O", "A">>}}
SolveStructures == UNION {[1..n -> SolveLines] : n \in 1..MaxAtoms}

NoFlags == [report |-> FALSE, dry |-> FALSE, save_output |-> FALSE,
            user |-> {}, user_given |-> FALSE]

PrepIdle ==
    /\ chainsCount = 0
    /\ assigned = <<>>
    /\ fn = "none"
    /\ argStructs = <<>>
    /\ argFlags = NoFlags
    /\ ret = None
    /\ written = {}
    /\ prPc = "idle"
    /\ result_1 = <<>>
    /\ result_2 = <<>>
    /\ final_result = <<>>
    /\ idsKind = "none"

\* solve_no_chainID_no_segID(lines), report left at its default
SolveCall ==
    /\ chainsCount < MaxCalls
    /\ \E lines \in SolveStructures :
        LET r == solve_no_chainID_no_segID(lines, chainsCount)
        IN /\ fn' = "solve_no_chainID_no_segID"
           /\ argStructs' = <<lines>>
           /\ argFlags' = NoFlags
           /\ ret' = Returned("lines", r.lines)
           /\ chainsCount' = IF r.advanced THEN chainsCount + 1
                             ELSE chainsCount
           /\ assigned' = IF r.advanced
                          THEN Append(assigned, r.lines[1].chain[1])
                          ELSE assigned
    /\ UNCHANGED <<written, prPc, result_1, result_2, final_result, idsKind>>

\* homogenize_chains(lines): with more than one chain ID every chain ID
\* becomes the first one and is copied to the segID (chainf is taken to
\* apply the two functions of the list it is given, in order); with one
\* chain ID or none the function ends without a return statement.
homogenize_chains(lines) ==
    LET chainids == read_chainids(lines)
    IN IF Len(chainids) > 1
       THEN Returned("lines", pdb_chainxseg(pdb_chain(lines, chainids[1][1])))
       ELSE None

\* supported_ATOM, supported_HETATM (haddock.core.supported_molecules):
\* the residues kept as ATOM and as HETATM; NAD stands for a name listed
\* in both.
supported_ATOM == {"MET", "HIS", "ALA", "NAD"}
supported_HETATM == {"LIG", "NAD"}

\* replace_HETATM_to_ATOM(fhandler, res)
replace_HETATM_to_ATOM(lines, res) ==
    [i \in 1..Len(lines) |->
        IF lines[i].rec = "HETATM" /\ lines[i].res = res
        THEN [lines[i] EXCEPT !.rec = "ATOM"] ELSE lines[i]]

\* pdb_rplresname.run(lines, name_from, name_to)
pdb_rplresname(lines, name_from, name_to) ==
    [i \in 1..Len(lines) |->
        IF lines[i].res = name_from
        THEN [lines[i] EXCEPT !.res = name_to] ELSE lines[i]]

\* replace_residue(fhandler, resin, resout)
replace_residue(lines, resin, resout) ==
    pdb_rplresname(replace_HETATM_to_ATOM(lines, resin), resin, resout)

replace_MSE_to_MET(lines) == replace_residue(lines, "MSE", "MET")
replace_HSD_to_HIS(lines) == replace_residue(lines, "HSD", "HIS")
replace_HSE_to_HIS(lines) == replace_residue(lines, "HSE", "HIS")
replace_HID_to_HIS(lines) == replace_residue(lines, "HID", "HIS")
replace_HIE_to_HIS(lines) == replace_residue(lines, "HIE", "HIS")

\* remove_unsupported_molecules(lines, haddock3_defined, user_defined,
\* line_startswith)
remove_unsupported_molecules(lines, haddock3_defined, user_defined, line_startswith) ==
    LET allowed == haddock3_defined \cup user_defined
        Kept(line) == (line.rec \in line_startswith) => (line.res \in allowed)
    IN SelectSeq(lines, Kept)

remove_unsupported_hetatm(lines, user_defined) ==
    remove_unsupported_molecules(lines, supported_HETATM, user_defined,
                                 {"HETATM"})

remove_unsupported_atom(lines) ==
    remove_unsupported_molecules(lines, supported_ATOM, {}, {"ATOM"})

\* convert_record(fhandler, record, other_record, must_be)
convert_record(lines, record, other_record, must_be) ==
    [i \in 1..Len(lines) |->
        IF lines[i].rec = record /\ lines[i].res \in must_be
        THEN [lines[i] EXCEPT !.rec = other_record] ELSE lines[i]]

\* The residues convert_ATOM_to_HETATM leaves alone when only the
\* supported HETATM are named.
MustBeSupportedOnly(user) == supported_HETATM

\* must_be=set.union(supported_HETATM, user_supported_residues)
MustBe(user) == supported_HETATM \cup user

convert_ATOM_to_HETATM(lines, must_be) ==
    convert_record(lines, "ATOM", "HETATM", must_be)

convert_HETATM_to_ATOM(lines) ==
    convert_record(lines, "HETATM", "ATOM", supported_ATOM)

\* chainf(structure, *line_by_line_processing_steps): the steps that
\* touch the record name or the residue name of a line that is not an
\* ion, in the order of the list.
line_by_line_processing_steps(lines, user) ==
    remove_unsupported_atom(
     remove_unsupported_hetatm(
      convert_HETATM_to_ATOM(
       convert_ATOM_to_HETATM(
        replace_HIE_to_HIS(
         replace_HID_to_HIS(
          replace_HSE_to_HIS(
           replace_HSD_to_HIS(
            replace_MSE_to_MET(lines))))),
        MustBe(user))),
      user))

\* The structures given to the functions of one structure: lines of two
\* chains with and without IDs, and lines of one chain with every residue
\* name and record name.
ChainLines ==
    {PdbLine("ATOM", "ALA", c, c) : c \in {Blank, <<"A">>, <<"B">>}}
ResNames == {"MSE", "HSD", "HSE", "HID", "HIE", "ALA", "LIG", "UNK", "NAD"}
ResLines ==
    {PdbLine(rec, res, <<"A">>, <<"A">>) :
        rec \in {"ATOM", "HETATM"}, res \in ResNames}
ChainStructures == UNION {[1..n -> ChainLines] : n \in 1..MaxAtoms}

\* The structures given in lists of several: a first line of one chain and
\* the other lines of one chain, the same or another.
ListStructures ==
    {[i \in 1..MaxAtoms |-> IF i = 1 THEN first ELSE others] :
        first \in ChainLines, others \in ChainLines}

\* The sequence types read_chainids can return, given that its result is
\* indexed and measured with len(): libpdb is outside the sources.
IdsKinds == {"list", "tuple", "str"}
ResStructures == UNION {[1..n -> ResLines] : n \in 1..MaxAtoms}

\* The functions decorated with _report that the model calls on their own.
Decorated == {"solve_no_chainID_no_segID", "homogenize_chains",
              "replace_MSE_to_MET", "remove_unsupported_atom"}

\* The undecorated function: what it returns and whether it called
\* next(_CHAINS).
Undecorated(f, lines, n) ==
    IF f = "solve_no_chainID_no_segID"
    THEN [ret |-> Returned("lines", solve_no_chainID_no_segID(lines, n).lines),
          advanced |-> solve_no_chainID_no_segID(lines, n).advanced]
    ELSE IF f = "homogenize_chains"
    THEN [ret |-> homogenize_chains(lines), advanced |-> FALSE]
    ELSE IF f = "replace_MSE_to_MET"
    THEN [ret |-> Returned("lines", replace_MSE_to_MET(lines)),
          advanced |-> FALSE]
    ELSE [ret |-> Returned("lines", remove_unsupported_atom(lines)),
          advanced |-> FALSE]

\* wrapper(lines, report=...) of _report: with report the result of the
\* function goes through list(), which raises TypeError on None, and the
\* difference with the input is logged; without, the result is returned
\* as it is.
wrapper(f, lines, report, n) ==
    LET r == Undecorated(f, lines, n)
    IN IF report /\ r.ret.kind = "None"
       THEN [ret |-> Raised("TypeError"), advanced |-> r.advanced]
       ELSE r

\* f(lines, report=...) for a decorated function f
DecoratedCall ==
    /\ fn = "none"
    /\ \E f \in Decorated, report \in BOOLEAN,
          lines \in ChainStructures \cup ResStructures :
        LET r == wrapper(f, lines, report, chainsCount)
        IN /\ fn' = f
           /\ argStructs' = <<lines>>
           /\ argFlags' = [NoFlags EXCEPT !.report = report]
           /\ ret' = r.ret
           /\ chainsCount' = IF r.advanced THEN chainsCount + 1
                             ELSE chainsCount
           /\ assigned' = IF r.advanced
                          THEN Append(assigned, r.ret.val[1].chain[1])
                          ELSE assigned
    /\ UNCHANGED <<written, prPc, result_1, result_2, final_result, idsKind>>

\* correct_equal_chain_segids(structures), read_chainids returning a
\* value of the given type: every result the call can have.  A set of
\* lists cannot be built; a letter is never equal to a tuple, and equal
\* to a string only when the string is that one letter; the order in which
\* the cycle over a set hands out its letters is not determined, only that
\* it repeats none before the set is exhausted.
CombineOutcomes(structures, kind) ==
    LET Ids(i) == read_chainids(structures[i])
        Replaced == {i \in 1..Len(structures) :
                        \E j \in 1..(i - 1) : Ids(j) = Ids(i)}
        Remaining ==
            {c \in {upper_case[k] : k \in 1..Len(upper_case)} :
                (kind = "str") =>
                    \A i \in 1..Len(structures) : Ids(i) # <<<<c>>>>}
        Handed == {f \in [Replaced -> Remaining] :
                      \A i, j \in Replaced : (i # j) => (f[i] # f[j])}
    IN IF kind = "list" /\ structures # <<>>
       THEN {Raised("TypeError")}
       ELSE {Returned("structures",
                [i \in 1..Len(structures) |->
                    IF i \in Replaced
                    THEN pdb_chainxseg(pdb_chain(structures[i], f[i]))
                    ELSE structures[i]]) : f \in Handed}

\* correct_equal_chain_segids(structures)
CombineCall ==
    /\ fn = "none"
    /\ \E structures \in UNION {[1..n -> ListStructures] : n \in 1..MaxStructs},
          kind \in IdsKinds :
        \E r \in CombineOutcomes(structures, kind) :
            /\ fn' = "correct_equal_chain_segids"
            /\ argStructs' = structures
            /\ argFlags' = NoFlags
            /\ idsKind' = kind
            /\ ret' = r
    /\ UNCHANGED <<chainsCount, assigned, written, prPc, result_1, result_2,
                   final_result>>

\* The values of user_supported_residues; the default is None.
UserSets == {{}, {"UNK"}, {"UNK", "ALA"}}

\* The lists of structures given to process_pdbs as lists of lines.
ProcessInputs ==
    {<<structure>> : structure \in ResStructures}
        \cup UNION {[1..n -> ListStructures] : n \in 1..MaxStructs}

\* process_pdbs(paths_or_lines, save_output, dry=..., user_supported_
\* residues=...) up to the lists of steps: set.union raises TypeError when
\* user_supported_residues is None.
ProcStart ==
    /\ fn = "none"
    /\ \E structures \in ProcessInputs, dry \in BOOLEAN,
          save_output \in BOOLEAN, user_given \in BOOLEAN,
          user \in UserSets :
        /\ (~user_given) => (user = {})
        /\ fn' = "process_pdbs"
        /\ argStructs' = structures
        /\ argFlags' = [report |-> FALSE, dry |-> dry,
                        save_output |-> save_output, user |-> user,
                        user_given |-> user_given]
        /\ IF user_given
           THEN prPc' = "line_by_line" /\ UNCHANGED ret
           ELSE prPc' = "done" /\ ret' = Raised("TypeError")
    /\ UNCHANGED <<chainsCount, assigned, written, result_1, result_2,
                   final_result, idsKind>>

\* result_1 = [list(chainf(structure, *line_by_line_processing_steps,
\* report=dry)) for structure in structures]
ProcLineByLine ==
    /\ prPc = "line_by_line"
    /\ result_1' = [i \in 1..Len(argStructs) |->
                      line_by_line_processing_steps(argStructs[i],
                                                    argFlags.user)]
    /\ prPc' = "whole"
    /\ UNCHANGED <<chainsCount, assigned, fn, argStructs, argFlags, ret,
                   written, result_2, final_result, idsKind>>

\* The comprehension of result_2 over the structures from the i-th on,
\* when _CHAINS has yielded n letters: the structures done, the letters
\* taken, and whether list() was given None and raised.
RECURSIVE WholeSteps(_, _, _)
WholeSteps(structures, i, n) ==
    IF i > Len(structures)
    THEN [done |-> <<>>, letters |-> <<>>, raised |-> FALSE]
    ELSE LET solved == solve_no_chainID_no_segID(structures[i], n)
             taken == IF solved.advanced THEN <<CHAINS(n)>> ELSE <<>>
             homogenized == homogenize_chains(solved.lines)
         IN IF homogenized.kind = "None"
            THEN [done |-> <<>>, letters |-> taken, raised |-> TRUE]
            ELSE LET rest == WholeSteps(structures, i + 1, n + Len(taken))
                 IN [done |-> <<homogenized.val>> \o rest.done,
                     letters |-> taken \o rest.letters,
                     raised |-> rest.raised]

\* result_2 = [list(chainf(structure, *whole_pdb_processing_steps,
\* report=dry)) for structure in result_1]
ProcWhole ==
    /\ prPc = "whole"
    /\ LET w == WholeSteps(result_1, 1, chainsCount)
       IN /\ chainsCount' = chainsCount + Len(w.letters)
          /\ assigned' = assigned \o w.letters
          /\ IF w.raised
             THEN /\ ret' = Raised("TypeError")
                  /\ prPc' = "done"
                  /\ UNCHANGED result_2
             ELSE /\ result_2' = w.done
                  /\ prPc' = "combined"
                  /\ UNCHANGED ret
    /\ UNCHANGED <<fn, argStructs, argFlags, written, result_1, final_result,
                   idsKind>>

\* final_result = chainf(result_2, *processed_combined_steps)
ProcCombined ==
    /\ prPc = "combined"
    /\ \E kind \in IdsKinds :
        \E r \in CombineOutcomes(result_2, kind) :
            /\ idsKind' = kind
            /\ IF r.kind = "raise"
               THEN /\ ret' = r
                    /\ prPc' = "done"
                    /\ UNCHANGED final_result
               ELSE /\ final_result' = r.val
                    /\ prPc' = "return"
                    /\ UNCHANGED ret
    /\ UNCHANGED <<chainsCount, assigned, fn, argStructs, argFlags, written,
                   result_1, result_2>>

\* The end of process_pdbs.  With save_output and lists of lines, the
\* generator of paths is made inside the try block without an error, and
\* Path(lines) raises TypeError when the loop asks for the first path,
\* before anything is written.
ProcReturn ==
    /\ prPc = "return"
    /\ ret' = IF argFlags.dry THEN None
              ELSE IF argFlags.save_output THEN Raised("TypeError")
              ELSE Returned("structures", final_result)
    /\ prPc' = "done"
    /\ UNCHANGED <<chainsCount, assigned, fn, argStructs, argFlags, written,
                   result_1, result_2, final_result, idsKind>>

MoreIdle == GmIdle /\ PrepIdle

ExtIdle == HdrIdle /\ CfgIdle /\ PathIdle /\ TqIdle /\ QueueIdle /\ MoreIdle

(***************************************************************************)
(* Specifications                                                          *)
(***************************************************************************)
PipeIdle ==
    /\ cwd = RunDir
    /\ exc = "none"
    /\ logged = NoLog
    /\ manifests = [d \in ManifestDirs |-> NoManifest]
    /\ files = {}
    /\ previous_io = EmptyIO
    /\ cns_script = ""
    /\ cns_defaults = ""
    /\ cns_recipe_path = "unset"
    /\ defaults_path = "unset"
    /\ nmodels = 0
    /\ index_list = <<>>
    /\ not_found = <<>>
    /\ sched = "idle"
    /\ budget = 0

\* The run starts: the controller is about to instantiate the setup phase.
Init ==
    /\ IdxIdle
    /\ ExtIdle
    /\ PipeIdle
    /\ pc = "construct"
    /\ step = 0
    /\ order = 0
    /\ path = <<>>
    /\ ncores = 0
    /\ jobs = [k \in 1..MaxSteps |-> <<>>]

Next ==
    \/ Construct
    \/ SetupRun
    \/ Retrieve
    \/ Build
    \/ SchedulerStart
    \/ SchedSubmit
    \/ SchedPoll
    \/ SchedReturn
    \/ JobStart
    \/ JobDone
    \/ JobFail
    \/ Check
    \/ Export

Spec == Init /\ [][Next]_vars

\* get_index_list alone, on every pair of arguments within the bounds.
InitIndex ==
    /\ IdxInit
    /\ ExtIdle
    /\ PipeIdle
    /\ pc = "idle"
    /\ step = 0
    /\ order = 0
    /\ path = <<>>
    /\ ncores = 0
    /\ jobs = [k \in 1..MaxSteps |-> <<>>]

NextIndex ==
    \/ (IdxEnter /\ UNCHANGED <<pipeVars, extVars>>)
    \/ (IdxIterate /\ UNCHANGED <<pipeVars, extVars>>)
    \/ (IdxReturn /\ UNCHANGED <<pipeVars, extVars>>)

SpecIndex == InitIndex /\ [][NextIndex]_vars

\* A job as the Scheduler receives it.
PendingJob(c) ==
    [output |-> OutputName(c), lo |-> 0, hi |-> 0, status |-> "pending",
     age |-> 0]

\* The Scheduler alone, on any number of jobs and any budget within the
\* bounds: _run is about to make and run it.
InitSched ==
    /\ IdxIdle
    /\ ExtIdle
    /\ PipeIdle
    /\ pc = "schedule"
    /\ step = 1
    /\ order = 1
    /\ path = StepPath(1)
    /\ ncores \in 1..MaxCores
    /\ \E n \in 0..MaxJobs :
        jobs = [k \in 1..MaxSteps |->
                  IF k = 1 THEN [i \in 1..n |-> PendingJob(i - 1)] ELSE <<>>]

SchedulerStep == SchedulerStart \/ SchedSubmit \/ SchedPoll \/ SchedReturn

NextSched ==
    \/ SchedulerStart
    \/ SchedSubmit
    \/ SchedPoll
    \/ SchedReturn
    \/ JobStart
    \/ JobDone
    \/ JobFail

SpecSched == InitSched /\ [][NextSched]_vars

\* The controlling process is one thread that runs the Scheduler's loop and
\* is never suspended for ever; nothing is assumed of the jobs.
FairSched == InitSched /\ [][NextSched]_vars /\ WF_vars(SchedulerStep)


\* The two header patterns alone, on every line within the bounds.
InitHeader ==
    /\ HdrInit
    /\ MoreIdle
    /\ CfgIdle
    /\ PathIdle
    /\ TqIdle
    /\ QueueIdle
    /\ IdxIdle
    /\ PipeIdle
    /\ pc = "idle"
    /\ step = 0
    /\ order = 0
    /\ path = <<>>
    /\ ncores = 0
    /\ jobs = [k \in 1..MaxSteps |-> <<>>]

HdrFrame ==
    UNCHANGED <<idxVars, pipeVars, cfgVars, pathVars, tqVars, queueVars,
                moreVars>>

NextHeader ==
    \/ (HdrMain /\ HdrFrame)
    \/ (HdrSub /\ HdrFrame)

SpecHeader == InitHeader /\ [][NextHeader]_vars


\* The configuration loader alone, on every text within the bounds.
InitConfig ==
    /\ CfgInit
    /\ MoreIdle
    /\ HdrIdle
    /\ PathIdle
    /\ TqIdle
    /\ QueueIdle
    /\ IdxIdle
    /\ PipeIdle
    /\ pc = "idle"
    /\ step = 0
    /\ order = 0
    /\ path = <<>>
    /\ ncores = 0
    /\ jobs = [k \in 1..MaxSteps |-> <<>>]

CfgFrame ==
    UNCHANGED <<idxVars, pipeVars, hdrVars, pathVars, tqVars, queueVars,
                moreVars>>

NextConfig ==
    \/ (CfgSkip /\ CfgFrame)
    \/ (CfgMainHeader /\ CfgFrame)
    \/ (CfgSubHeader /\ CfgFrame)
    \/ (CfgKeyValue /\ CfgFrame)
    \/ (CfgSyntaxError /\ CfgFrame)
    \/ (CfgFinish /\ CfgFrame)

SpecConfig == InitConfig /\ [][NextConfig]_vars


\* A step of any ordinal, given an absolute or a relative working
\* directory: its process enters and leaves working_directory blocks and
\* computes previous_path now and then.
InitPath ==
    /\ PathIdle
    /\ MoreIdle
    /\ HdrIdle
    /\ CfgIdle
    /\ TqIdle
    /\ QueueIdle
    /\ IdxIdle
    /\ PipeIdle
    /\ pc = "idle"
    /\ step = 0
    /\ order \in 0..MaxOrder
    /\ path \in {StepPath(order), RelativeStepPath(order)}
    /\ ncores = 0
    /\ jobs = [k \in 1..MaxSteps |-> <<>>]

PathFrame ==
    UNCHANGED <<pc, step, fsVars, modVars, runVars, schedVars,
                idxVars, hdrVars, cfgVars, tqVars, queueVars, moreVars>>

NextPath ==
    \/ (PathEnter /\ PathFrame)
    \/ (PathRaise /\ PathFrame)
    \/ (PathExit /\ PathFrame)
    \/ (PathCompute /\ PathFrame)

SpecPath == InitPath /\ [][NextPath]_vars


\* to_torque_time alone, on every duration within the bounds.
InitTorque ==
    /\ TqInit
    /\ MoreIdle
    /\ QueueIdle
    /\ PathIdle
    /\ HdrIdle
    /\ CfgIdle
    /\ IdxIdle
    /\ PipeIdle
    /\ pc = "idle"
    /\ step = 0
    /\ order = 0
    /\ path = <<>>
    /\ ncores = 0
    /\ jobs = [k \in 1..MaxSteps |-> <<>>]

NextTorque ==
    /\ TqConvert
    /\ UNCHANGED <<idxVars, pipeVars, hdrVars, cfgVars, pathVars, queueVars,
                   moreVars>>

SpecTorque == InitTorque /\ [][NextTorque]_vars


\* The jobs of a SLURM queue, polled in any order; the queue answers each
\* query with the record of the job or with the unknown-id message.
InitQueue ==
    /\ QueueInit
    /\ MoreIdle
    /\ TqIdle
    /\ PathIdle
    /\ HdrIdle
    /\ CfgIdle
    /\ IdxIdle
    /\ PipeIdle
    /\ pc = "idle"
    /\ step = 0
    /\ order = 0
    /\ path = <<>>
    /\ ncores = 0
    /\ jobs = [k \in 1..MaxSteps |-> <<>>]

NextQueue ==
    /\ QueuePoll
    /\ UNCHANGED <<idxVars, pipeVars, hdrVars, cfgVars, pathVars, tqVars,
                   moreVars>>

SpecQueue == InitQueue /\ [][NextQueue]_vars


\* Everything but the areas below is idle.
RestIdle ==
    /\ HdrIdle
    /\ CfgIdle
    /\ PathIdle
    /\ TqIdle
    /\ QueueIdle
    /\ IdxIdle
    /\ PipeIdle
    /\ pc = "idle"
    /\ step = 0
    /\ order = 0
    /\ path = <<>>
    /\ ncores = 0
    /\ jobs = [k \in 1..MaxSteps |-> <<>>]

restVars == <<idxVars, pipeVars, hdrVars, cfgVars, pathVars, tqVars, queueVars>>

\* get_module_name alone, on every name and suffix within the bounds.
InitModuleName ==
    /\ GmInit
    /\ PrepIdle
    /\ RestIdle

NextModuleName ==
    /\ GmCall
    /\ UNCHANGED <<restVars, prepVars>>

SpecModuleName == InitModuleName /\ [][NextModuleName]_vars


\* A process that calls solve_no_chainID_no_segID again and again.
InitPrep ==
    /\ PrepIdle
    /\ GmIdle
    /\ RestIdle

PrepFrame == UNCHANGED <<restVars, gmVars>>

NextSolve == SolveCall /\ PrepFrame

SpecSolve == InitPrep /\ [][NextSolve]_vars

\* A process that calls one function of gear/preprocessing.py.
NextPrep ==
    \/ (DecoratedCall /\ PrepFrame)
    \/ (CombineCall /\ PrepFrame)
    \/ (ProcStart /\ PrepFrame)
    \/ (ProcLineByLine /\ PrepFrame)
    \/ (ProcWhole /\ PrepFrame)
    \/ (ProcCombined /\ PrepFrame)
    \/ (ProcReturn /\ PrepFrame)

SpecPrep == InitPrep /\ [][NextPrep]_vars


(***************************************************************************)
(* Properties                                                              *)
(***************************************************************************)

\* C1: for every n >= 0 and c >= 1 the list L returned by
\* get_index_list(n, c) has c+1 indexes, starts at 0, ends at n and never
\* decreases, and every unit of [0, n) lies in exactly one range
\* [L[i], L[i+1]).
C1_IndexListCoversRange ==
    ilPc = "returned" =>
        /\ Len(ilList) = ncores_arg + 1
        /\ ilList[1] = 0
        /\ ilList[ncores_arg + 1] = nmodels_arg
        /\ \A i \in 1..ncores_arg : ilList[i] <= ilList[i + 1]
        /\ \A x \in 0..(nmodels_arg - 1) :
            Cardinality({i \in 1..ncores_arg :
                           ilList[i] <= x /\ x < ilList[i + 1]}) = 1

\* C1, its case: a returned list for more units than workers, several
\* workers and a remainder.
C1_Witness ==
    /\ ilPc = "returned"
    /\ ncores_arg > 1
    /\ nmodels_arg > ncores_arg
    /\ nmodels_arg % ncores_arg # 0

\* C2: worker i (counted from 0) of get_index_list(n, c) gets floor(n/c)+1
\* units when i < n mod c and floor(n/c) units otherwise.
C2_ExtraUnitsToLowestWorkers ==
    ilPc = "returned" =>
        \A i \in 0..(ncores_arg - 1) :
            ilList[i + 2] - ilList[i + 1] =
                IF i < nmodels_arg % ncores_arg
                THEN (nmodels_arg \div ncores_arg) + 1
                ELSE nmodels_arg \div ncores_arg

\* C2, its case: a returned list where some workers get the extra unit and
\* the others get a non-zero floor(n/c).
C2_Witness ==
    /\ ilPc = "returned"
    /\ rem > 0
    /\ rem < ncores_arg - 1
    /\ spc > 0

Attempted == ~(pc = "construct" /\ step = 0)

\* C4: with no manifest of the predecessor, constructing ordinal 0 gives an
\* empty previous manifest and constructing an ordinal >= 1 fails.
C4_MissingManifestIsFatal ==
    /\ (Attempted /\ order = 0) => previous_io = EmptyIO
    /\ (Attempted /\ order >= 1 /\ ~IsFile(previous_path(order, path, cwd)))
           => exc # "none"

\* The outputs of the jobs of step k that do not exist.
MissingOutputs(k) ==
    {jobs[k][i].output : i \in {h \in 1..Len(jobs[k]) :
                                  OutputFile(k, jobs[k][h].output) \notin files}}

\* C5: in the alascan step, when an output of a job is missing after
\* Scheduler.run, the step ends through finish_with_error (SystemExit) with a
\* message that lists exactly the missing outputs, and the outputs of a
\* step that went on to the analysis or exported its manifest all exist.
C5_MissingOutputsAbortStep ==
    /\ pc = "analysis" => MissingOutputs(step) = {}
    /\ \A k \in 1..MaxSteps :
        manifests[StepPath(k)].present => MissingOutputs(k) = {}
    /\ (pc = "aborted" /\ logged.kind = NotGenerated) =>
        /\ exc = "SystemExit"
        /\ logged.names # <<>>
        /\ {logged.names[i] : i \in 1..Len(logged.names)} = MissingOutputs(step)
        /\ Len(logged.names) = Cardinality(MissingOutputs(step))
        /\ ~manifests[StepPath(step)].present

\* C5, its case: the step has ended on the missing output of one job while
\* another job of the step has written its output.
C5_Witness ==
    /\ pc = "aborted"
    /\ exc = "SystemExit"
    /\ logged.kind = NotGenerated
    /\ Len(logged.names) >= 1
    /\ Len(logged.names) < Len(jobs[step])

\* C6: a module whose predecessor's models cannot be retrieved, or whose
\* predecessor supplies no model, ends the run through finish_with_error:
\* it builds no job and writes no manifest.
C6_CannotProceedAborts ==
    /\ (pc = "aborted" /\ logged.kind = "exception") =>
        /\ exc = "SystemExit"
        /\ jobs[step] = <<>>
        /\ ~manifests[StepPath(step)].present
    /\ pc \in {"schedule", "check", "analysis"} => nmodels > 0
    /\ \A k \in 1..MaxSteps :
        manifests[StepPath(k)].present => manifests[StepPath(k)].models > 0

\* C7: constructing a module whose recipe or defaults cannot be opened,
\* the empty default arguments included, fails with RecipeError.
C7_UnopenableIsRecipeError ==
    (Attempted /\ (cns_script # "ok" \/ cns_defaults # "ok")) =>
        /\ pc = "aborted"
        /\ exc = "RecipeError"

\* C8: every job of step k is terminal before a job of a later step is
\* submitted, and the module reads the outputs of its jobs only after
\* Scheduler.run has returned.
C8_StepsOneAfterAnother ==
    /\ \A k \in 1..MaxSteps : \A h \in 1..MaxSteps :
        (k < h /\ \E i \in 1..Len(jobs[h]) : jobs[h][i].status # "pending")
            => AllTerminal(jobs[k])
    /\ pc \in {"check", "analysis"} =>
        /\ sched = "returned"
        /\ AllTerminal(jobs[step])

\* C8, its case: a job of step 2 is running after a step 1 that ran jobs.
C8_Witness ==
    /\ step = 2
    /\ Len(jobs[1]) > 0
    /\ \E i \in 1..Len(jobs[2]) : jobs[2][i].status = "running"

\* C9: Scheduler.run always returns; when it has returned every job is
\* done, failed or timed_out; no job stays outstanding at the ceiling.
C9_RunReturnsAllTerminal ==
    /\ [](pc = "check" => (sched = "returned" /\ AllTerminal(jobs[step])))
    /\ [](\A i \in 1..Len(jobs[step]) :
            jobs[step][i].status \in Outstanding => jobs[step][i].age < Ceiling)
    /\ (pc = "schedule") ~> (pc = "check")

\* C9, its case: run has returned with one job timed out and one failed.
C9_Witness ==
    /\ pc = "check"
    /\ \E i \in 1..Len(jobs[step]) : jobs[step][i].status = "timed_out"
    /\ \E i \in 1..Len(jobs[step]) : jobs[step][i].status = "failed"

\* C10: the number of jobs submitted or running and not yet terminal never
\* exceeds the budget the Scheduler was given.
C10_OutstandingWithinBudget ==
    sched = "running" => NumOutstanding(jobs[step]) <= budget

\* C10, its case: the pool is full while a job is still waiting for a slot.
C10_Witness ==
    /\ sched = "running"
    /\ NumOutstanding(jobs[step]) = budget
    /\ \E i \in 1..Len(jobs[step]) : jobs[step][i].status = "pending"


\* C19: the alascan step creates exactly ncores jobs, the job of core i
\* receives the models of [L[i], L[i+1]) of get_index_list, every model of
\* the predecessor goes to exactly one job, and no two jobs of the step
\* have the same output name.
C19_OneJobPerCoreDisjointSlices ==
    pc \in {"schedule", "check", "analysis"} =>
        LET js == jobs[step]
            L == get_index_list(nmodels, ncores)
        IN /\ Len(js) = ncores
           /\ \A i \in 1..Len(js) :
                /\ js[i].lo = L[i]
                /\ js[i].hi = L[i + 1]
                /\ js[i].output = OutputName(i - 1)
           /\ \A m \in 0..(nmodels - 1) :
                Cardinality({i \in 1..Len(js) :
                               js[i].lo <= m /\ m < js[i].hi}) = 1
           /\ \A i \in 1..Len(js) : \A h \in 1..Len(js) :
                js[i].output = js[h].output => i = h

\* C19, its case: several jobs share several models, unevenly.
C19_Witness ==
    /\ pc = "schedule"
    /\ ncores >= 2
    /\ nmodels > ncores
    /\ nmodels % ncores # 0
    /\ Len(jobs[step]) = ncores


\* What a line looks like, said without scanning it.
Bracketed(line) == Len(line) >= 2 /\ line[1] = "[" /\ line[Len(line)] = "]"

Inner(line) == SubSeq(line, 2, Len(line) - 1)

IsIdentifier(s) == Len(s) >= 1 /\ \A i \in 1..Len(s) : s[i] \in WordChars

DotsOf(s) == {i \in 1..Len(s) : s[i] = "."}

IsDottedPath(s) ==
    /\ DotsOf(s) # {}
    /\ \A i \in 1..Len(s) : s[i] \in WordChars \/ s[i] = "."
    /\ s[1] # "." /\ s[Len(s)] # "."
    /\ \A i \in DotsOf(s) : i + 1 \notin DotsOf(s)

FirstDot(s) == CHOOSE i \in DotsOf(s) : \A h \in DotsOf(s) : i <= h

\* C20: the top-level pattern accepts exactly the lines [IDENTIFIER], the
\* identifier made of ASCII letters, digits and underscores, and captures
\* the identifier; the nested pattern accepts exactly the bracketed dotted
\* paths with at least one dot and captures the first segment and the rest
\* with its leading dot; no line is accepted by both, and a line with an
\* equals sign is accepted by neither.
C20_HeaderPatternsStrictAndDisjoint ==
    hdrPc = "done" =>
        LET inner == Inner(hdrLine)
        IN /\ hdrMain # NoMatch <=> (Bracketed(hdrLine) /\ IsIdentifier(inner))
           /\ hdrMain # NoMatch => hdrMain = <<inner>>
           /\ hdrSub # NoMatch <=> (Bracketed(hdrLine) /\ IsDottedPath(inner))
           /\ hdrSub # NoMatch =>
                hdrSub = <<SubSeq(inner, 1, FirstDot(inner) - 1),
                           SubSeq(inner, FirstDot(inner), Len(inner))>>
           /\ ~(hdrMain # NoMatch /\ hdrSub # NoMatch)
           /\ (\E i \in 1..Len(hdrLine) : hdrLine[i] = "=") =>
                (hdrMain = NoMatch /\ hdrSub = NoMatch)

C20_Witness ==
    /\ hdrPc = "done"
    /\ hdrSub # NoMatch
    /\ hdrMain = NoMatch
    /\ Cardinality(DotsOf(hdrLine)) >= 2


\* What the text says, read off its lines without the loader's state.
CfgP(i) == ProcessLine(cfgLines[i])

MainsOf(n) == {i \in 1..Len(cfgLines) : MainHeaderMatch(CfgP(i)) = <<n>>}

DeclaredNames ==
    {MainHeaderMatch(CfgP(i))[1] :
        i \in {h \in 1..Len(cfgLines) : MainHeaderMatch(CfgP(h)) # NoMatch}}

SubHeadersOf == {i \in 1..Len(cfgLines) : SubHeaderMatch(CfgP(i)) # NoMatch}

IsHeaderAt(i) ==
    MainHeaderMatch(CfgP(i)) # NoMatch \/ SubHeaderMatch(CfgP(i)) # NoMatch

IsParamAt(i) == CfgP(i) # <<>> /\ ~IsHeaderAt(i) /\ IsKeyValue(CfgP(i))

\* The header a line stands under, 0 before the first header.
Governing(i) ==
    LET hs == {h \in 1..(i - 1) : IsHeaderAt(h)}
    IN IF hs = {} THEN 0 ELSE CHOOSE h \in hs : \A g \in hs : g <= h

ParamsUnder(j) ==
    {i \in 1..Len(cfgLines) : IsParamAt(i) /\ Governing(i) = j}

DeclarationsUpTo(n, j) == Cardinality({h \in MainsOf(n) : h <= j})

ExpectedKey(n, k) ==
    IF Cardinality(MainsOf(n)) = 1 THEN n ELSE n \o <<".">> \o Digits(k)

\* The section a header line opens, the root for 0.
ExpectedSection(j) ==
    IF j = 0
    THEN <<>>
    ELSE IF MainHeaderMatch(CfgP(j)) # NoMatch
    THEN LET n == MainHeaderMatch(CfgP(j))[1]
         IN <<ExpectedKey(n, DeclarationsUpTo(n, j))>>
    ELSE LET m == SubHeaderMatch(CfgP(j))
         IN <<ExpectedKey(m[1], DeclarationsUpTo(m[1], j))>> \o SplitDots(m[2])

ParamsOfSection(sec) ==
    {i \in 1..Len(cfgLines) :
        IsParamAt(i) /\ ExpectedSection(Governing(i)) = sec}

\* The mapping of section sec in the tree holds the parameters of the
\* lines I and nothing else, a later line of I replacing an earlier one.
MappingIs(sec, I) ==
    /\ \A x \in DOMAIN cfgResult.vals :
            x.sec = sec => \E i \in I : KeyOf(CfgP(i)) = x.key
    /\ \A i \in I :
        LET x == [sec |-> sec, key |-> KeyOf(CfgP(i))]
        IN /\ x \in DOMAIN cfgResult.vals
           /\ (\A h \in I : KeyOf(CfgP(h)) = x.key => h <= i)
                => cfgResult.vals[x] = ValueOf(CfgP(i))

\* The tree the loader's test expects of its first text.
CfgExpected1 ==
    [sections |-> { << <<"h", ".", "1">> >>, << <<"h", ".", "1">>, <<"w">> >>,
                    << <<"h", ".", "2">> >>, << <<"h", ".", "2">>, <<"w">> >> },
     vals |-> ([sec |-> <<>>, key |-> <<"a">>] :> <<"1">>)
           @@ ([sec |-> << <<"h", ".", "1">> >>, key |-> <<"a">>] :> <<"2">>)
           @@ ([sec |-> << <<"h", ".", "1">>,
             <<"w">> >>, key |-> <<"b">>] :> <<"1">>)
           @@ ([sec |-> << <<"h", ".", "2">>,
             <<"w">> >>, key |-> <<"c">>] :> <<"5">>)]

\* C11: a top-level name declared more than once has one instance per
\* declaration in the tree, keyed name.1, name.2, ... in the order of the
\* declarations and never under the bare name, and the mapping of each
\* instance holds exactly the parameters written under its own declaration,
\* none at all when the declaration has none.
C11_OneInstancePerDeclaration ==
    cfgPc = "done" =>
        /\ \A n \in DeclaredNames :
             Cardinality(MainsOf(n)) >= 2 =>
                /\ <<n>> \notin cfgResult.sections
                /\ {s \in cfgResult.sections :
                        /\ Len(s) = 1
                        /\ Len(s[1]) > Len(n)
                        /\ SubSeq(s[1], 1, Len(n) + 1) = n \o <<".">>}
                     = {<<n \o <<".">> \o Digits(k)>> :
                            k \in 1..Cardinality(MainsOf(n))}
                /\ \A j \in MainsOf(n) :
                     MappingIs(<<n \o <<".">> \o Digits(DeclarationsUpTo(n, j))>>,
                               ParamsUnder(j))
        /\ cfgLines = CfgExample1 => cfgResult = CfgExpected1

C11_Witness ==
    /\ cfgPc = "done"
    /\ \E n \in DeclaredNames :
        /\ Cardinality(MainsOf(n)) >= 2
        /\ \E j \in MainsOf(n) : ParamsUnder(j) = {}
        /\ \E j \in MainsOf(n) : ParamsUnder(j) # {}

\* The tree the loader's test expects of its second text.
CfgExpected2 ==
    [sections |-> { << <<"g">> >>, << <<"g">>, <<"w">> >>, << <<"g">>, <<"w">>,
      <<"x">> >> },
     vals |-> ([sec |-> <<>>, key |-> <<"a">>] :> <<"1">>)
           @@ ([sec |-> << <<"g">> >>, key |-> <<"b">>] :> <<"2">>)
           @@ ([sec |-> << <<"g">>, <<"w">> >>, key |-> <<"a">>] :> <<"1">>)
           @@ ([sec |-> << <<"g">>, <<"w">>,
             <<"x">> >>, key |-> <<"b">>] :> <<"2">>)]

\* C12: a nested section, of any depth, is in the tree under the instance
\* of its parent that was declared last before it (the second instance when
\* it comes after the second header of the parent, the first when it comes
\* before), with the parameters written under it, and the tree has no
\* nested section under any other instance.
C12_NestedUnderLastDeclaredInstance ==
    cfgPc = "done" =>
        /\ \A j \in SubHeadersOf :
             LET sec == ExpectedSection(j)
             IN /\ sec \in cfgResult.sections
                /\ MappingIs(sec, ParamsOfSection(sec))
        /\ \A s \in cfgResult.sections :
             Len(s) >= 2 =>
                \E j \in SubHeadersOf : s \in Prefixes(ExpectedSection(j))
        /\ cfgLines = CfgExample2 => cfgResult = CfgExpected2

C12_Witness ==
    /\ cfgPc = "done"
    /\ \E j \in SubHeadersOf :
        /\ DeclarationsUpTo(SubHeaderMatch(CfgP(j))[1], j) = 2
        /\ ParamsUnder(j) # {}
    /\ \E j \in SubHeadersOf :
        DeclarationsUpTo(SubHeaderMatch(CfgP(j))[1], j) = 1

\* The tree the loader's test expects of its third text.
CfgExpected3 ==
    [sections |-> { << <<"h">> >>, << <<"h">>, <<"w">> >> },
     vals |-> ([sec |-> <<>>, key |-> <<"a">>] :> <<"1">>)
           @@ ([sec |-> << <<"h">>, <<"w">> >>, key |-> <<"a">>] :> <<"2">>)
           @@ ([sec |-> << <<"h">>, <<"w">> >>, key |-> <<"b">>] :> <<"2">>)]

\* C13: a top-level name declared exactly once is in the tree under its
\* bare name and under no numbered key, with the parameters written under
\* its declaration, and the parameters written before any header are in
\* the root mapping.
C13_SingleNameBareRootKeys ==
    cfgPc = "done" =>
        /\ \A n \in DeclaredNames :
             Cardinality(MainsOf(n)) = 1 =>
                /\ <<n>> \in cfgResult.sections
                /\ \A s \in cfgResult.sections :
                     ~(/\ Len(s) = 1
                       /\ Len(s[1]) > Len(n)
                       /\ SubSeq(s[1], 1, Len(n) + 1) = n \o <<".">>)
                /\ \A j \in MainsOf(n) : MappingIs(<<n>>, ParamsUnder(j))
        /\ MappingIs(<<>>, ParamsUnder(0))
        /\ cfgLines = CfgExample3 => cfgResult = CfgExpected3

C13_Witness ==
    /\ cfgPc = "done"
    /\ ParamsUnder(0) # {}
    /\ \E n \in DeclaredNames :
        /\ Cardinality(MainsOf(n)) = 1
        /\ \E j \in MainsOf(n) : ParamsUnder(j) # {}


\* C17: the directory previous_path gives a step of ordinal k > 1 has the
\* name of the directory of step k-1, the fixed prefix plus the ordinal
\* k-1 zero-padded (to some width of at least two digits).
C17_PreviousPathNamesPaddedStepDir ==
    (ppLast # <<>> /\ order > 1) =>
        \E w \in 2..MaxPadWidth : ppName = StepDirName(order - 1, w)

\* C18: all the directories previous_path returns to one step, of one
\* ordinal and one configured path, are the same directory, whatever the
\* current working directory is when it is called.
C18_PreviousPathIndependentOfCwd == Cardinality(ppSeen) <= 1


\* The number a text of decimal digits stands for.
DigitValue(c) == CHOOSE v \in 0..9 : DigitChars[v + 1] = c

RECURSIVE NumberOf(_)
NumberOf(s) ==
    IF s = <<>>
    THEN 0
    ELSE 10 * NumberOf(SubSeq(s, 1, Len(s) - 1)) + DigitValue(s[Len(s)])

AllDigits(s) == \A i \in 1..Len(s) : s[i] \in DigitSet

\* C14: for every whole number m >= 0 of minutes, to_torque_time(m) is
\* HH:MM:00 where MM is m mod 60 in two digits and HH is floor(m / 60) in
\* at least two digits, all of them kept when it is above 99 and no more
\* than two when it is not.
C14_TorqueTimeCarriesHours ==
    tqPc = "done" =>
        LET n == Len(tqOut)
            hh == SubSeq(tqOut, 1, n - 6)
            mm == SubSeq(tqOut, n - 4, n - 3)
        IN /\ n >= 8
           /\ SubSeq(tqOut, n - 5, n - 5) = <<":">>
           /\ SubSeq(tqOut, n - 2, n) = <<":", "0", "0">>
           /\ AllDigits(mm) /\ NumberOf(mm) = tqMinutes % 60
           /\ AllDigits(hh) /\ NumberOf(hh) = tqMinutes \div 60
           /\ Len(hh) > 2 => hh[1] # "0"
           /\ tqMinutes = 10 => tqOut = <<"0", "0", ":", "1", "0", ":", "0", "0">>
           /\ tqMinutes = 60 => tqOut = <<"0", "1", ":", "0", "0", ":", "0", "0">>
           /\ tqMinutes = 70 => tqOut = <<"0", "1", ":", "1", "0", ":", "0", "0">>
           /\ tqMinutes = 1510 => tqOut = <<"2", "5", ":", "1", "0", ":", "0", "0">>
           /\ tqMinutes = 6070 => tqOut = <<"1", "0", "1", ":", "1", "0", ":", "0", "0">>

C14_Witness == tqPc = "done" /\ tqMinutes \div 60 > 99 /\ Len(tqOut) = 9

\* C15: when the queue answers that the job id is not valid,
\* extract_slurm_status gives ERROR and JOB_STATUS_DIC the status error,
\* and that status is terminal: a job whose status is error is never
\* polled again, nothing about it changes any more.
C15_UnknownJobIdIsTerminalError ==
    /\ [](\A i \in 1..Len(qjobs) :
            qjobs[i].answer = InvalidJobIdAnswer =>
                /\ qjobs[i].raw = "ERROR"
                /\ qjobs[i].status = "error")
    /\ [][\A i \in 1..Len(qjobs) :
            qjobs[i].status = "error" => qjobs'[i] = qjobs[i]]_vars

C15_Witness ==
    \E i \in 1..Len(qjobs) :
        /\ qjobs[i].status = "error"
        /\ qjobs[i].polls >= 2
        /\ \E h \in 1..Len(qjobs) : qjobs[h].polls > qjobs[i].polls


\* C21 as stated: for every section name s without a dot and every suffix
\* of dots and digits, get_module_name(s + suffix) = s.
C21_ModuleNameOfAnySuffix == gmPc = "done" => gmOut = gmName

\* C21, amended: for every section name s without a dot and every suffix
\* of dots and digits that is empty or begins with a dot,
\* get_module_name(s + suffix) = s; so it is for the keys s.k of the
\* instances the loader numbers.
C21_ModuleNameOfDottedSuffix ==
    gmPc = "done" =>
        /\ (gmSuffix = <<>> \/ gmSuffix[1] = ".") => gmOut = gmName
        /\ \A k \in 1..MaxLines :
             get_module_name(RenderKey(gmName, k, 2)) = gmName

C21_Witness ==
    /\ gmPc = "done"
    /\ Len(gmSuffix) >= 4
    /\ gmSuffix[1] = "."
    /\ \E i \in 1..(Len(gmSuffix) - 1) : gmSuffix[i] = "." /\ gmSuffix[i + 1] = "."
    /\ \E i \in 1..Len(gmName) : gmName[i] \in DigitSet


\* The directory a process started in the directory of the run is in once
\* it has entered blocks with these path arguments, outermost first.
RECURSIVE EnteredDirectory(_)
EnteredDirectory(args) ==
    IF args = <<>> THEN RunDir
    ELSE Resolve(args[Len(args)],
                 EnteredDirectory(SubSeq(args, 1, Len(args) - 1)))

\* C24: working_directory restores the current working directory of the
\* process on every exit of its block, normal or by an exception (the
\* SystemExit of finish_with_error included), and nested blocks restore in
\* reverse order: the process is always in the directory of the blocks
\* still open, in the directory it started in when none is, and the
\* directories restored while an exception unwinds are those of the
\* enclosing blocks, innermost first.
C24_WorkingDirectoryRestored ==
    /\ cwd = EnteredDirectory(wdArgs)
    /\ (wdArgs = <<>>) => (cwd = RunDir)
    /\ \A i \in 1..Len(wdUnwound) :
         \E outer \in [1..(Len(wdArgs) + Len(wdUnwound) - i) -> {path, RunDir}] :
            /\ SubSeq(outer, 1, Len(wdArgs)) = wdArgs
            /\ wdUnwound[i] = EnteredDirectory(outer)

\* Two nested blocks in different directories were left by the SystemExit
\* of finish_with_error, the inner one first.
C24_Witness ==
    /\ exc = "SystemExit"
    /\ wdStack = <<>>
    /\ Len(wdUnwound) = 2
    /\ wdUnwound[1] # RunDir
    /\ wdUnwound[2] = RunDir
    /\ cwd = RunDir

\* The structure given to the last call has neither a chain ID nor a segID.
HasNoIds(lines) == read_chainids(lines) = <<>> /\ read_segids(lines) = <<>>

\* C26: over a sequence of calls of solve_no_chainID_no_segID on structures
\* with neither chain ID nor segID, the letters assigned start from A and
\* no letter comes twice before all 26 have been assigned.
C26_LettersStartFromA ==
    /\ (Len(assigned) >= 1) => (assigned[1] = "A")
    /\ \A i, j \in 1..Len(assigned) :
        (i < j /\ j <= Len(ascii_uppercase)) => (assigned[i] # assigned[j])

\* The part of C26 the code keeps: no letter comes twice before all 26 have
\* been assigned, and the 27th assignment repeats the first.
C26_NoLetterTwice ==
    /\ \A i, j \in 1..Len(assigned) :
        (i < j /\ j <= Len(ascii_uppercase)) => (assigned[i] # assigned[j])
    /\ (Len(assigned) > Len(ascii_uppercase)) =>
           (assigned[Len(ascii_uppercase) + 1] = assigned[1])

\* The first structure without any ID has just been given its letter.
C26_FirstLetterAssigned ==
    /\ fn = "solve_no_chainID_no_segID"
    /\ HasNoIds(argStructs[1])
    /\ Len(assigned) = 1
    /\ assigned[1] = "Z"

\* C29: after solve_no_chainID_no_segID, whatever the branch, the chain IDs
\* and the segIDs of the lines returned are not empty and are equal, and
\* the chain IDs the input had are kept.
C29_ChainAndSegIdsAgree ==
    (fn = "solve_no_chainID_no_segID") =>
        /\ read_chainids(ret.val) # <<>>
        /\ read_segids(ret.val) = read_chainids(ret.val)
        /\ (read_chainids(argStructs[1]) # <<>>) =>
               (read_chainids(ret.val) = read_chainids(argStructs[1]))

\* The same in every branch but the one of a structure that has segIDs
\* only.
C29_AgreeUnlessOnlySegIds ==
    (/\ fn = "solve_no_chainID_no_segID"
     /\ ~(read_chainids(argStructs[1]) = <<>>
          /\ read_segids(argStructs[1]) # <<>>)) =>
        /\ read_chainids(ret.val) # <<>>
        /\ read_segids(ret.val) = read_chainids(ret.val)
        /\ (read_chainids(argStructs[1]) # <<>>) =>
               (read_chainids(ret.val) = read_chainids(argStructs[1]))

\* A structure whose only ID is the segID PROA came back with chain ID P
\* and segID PROA.
C29_FourLetterSegId ==
    /\ fn = "solve_no_chainID_no_segID"
    /\ argStructs[1] = <<PdbLine("ATOM", "ALA", Blank, <<"P", "R", "O", "A">>)>>
    /\ read_chainids(ret.val) = <<<<"P">>>>
    /\ read_segids(ret.val) = <<<<"P", "R", "O", "A">>>>

\* Every line has the chain ID and the segID c.
AllChainsAre(lines, c) ==
    \A i \in 1..Len(lines) : lines[i].chain = c /\ lines[i].seg = c

\* C25: homogenize_chains returns lines for every structure: with more than
\* one chain ID, the lines with every chain ID made equal to the first and
\* copied to the segID; with one chain ID or none, the lines it was given.
C25_HomogenizeReturnsLines ==
    (fn = "homogenize_chains" /\ ~argFlags.report) =>
        /\ ret.kind = "lines"
        /\ Len(ret.val) = Len(argStructs[1])
        /\ IF Len(read_chainids(argStructs[1])) > 1
           THEN AllChainsAre(ret.val, read_chainids(argStructs[1])[1])
           ELSE ret.val = argStructs[1]

\* The half of C25 the code keeps: a structure with more than one chain ID
\* comes back with every chain ID and segID equal to its first chain ID.
C25_SeveralChainsMadeEqual ==
    (/\ fn = "homogenize_chains"
     /\ Len(read_chainids(argStructs[1])) > 1) =>
        /\ ret.kind = "lines"
        /\ Len(ret.val) = Len(argStructs[1])
        /\ AllChainsAre(ret.val, read_chainids(argStructs[1])[1])

\* homogenize_chains was given one line of chain A and returned None.
C25_OneChainGivesNone ==
    /\ fn = "homogenize_chains"
    /\ ~argFlags.report
    /\ argStructs[1] = <<PdbLine("ATOM", "ALA", <<"A">>, <<"A">>)>>
    /\ ret = None

\* How many letters _CHAINS had yielded when the last call began.
ChainsBefore ==
    IF fn = "solve_no_chainID_no_segID" /\ HasNoIds(argStructs[1])
    THEN chainsCount - 1 ELSE chainsCount

\* C27: a function decorated with _report yields the same lines with
\* report=True and with report=False: called with the other value of the
\* flag on the same input, the function just called would have returned
\* the same sequence of lines.
C27_ReportFlagKeepsLines ==
    (fn \in Decorated) =>
        /\ ret.kind = "lines"
        /\ wrapper(fn, argStructs[1], ~argFlags.report, ChainsBefore).ret = ret

\* The same for every call but those of homogenize_chains on a structure
\* with one chain ID or none, where the function returns None.
C27_SameLinesUnlessNone ==
    (/\ fn \in Decorated
     /\ ~(fn = "homogenize_chains"
          /\ Len(read_chainids(argStructs[1])) <= 1)) =>
        /\ ret.kind = "lines"
        /\ wrapper(fn, argStructs[1], ~argFlags.report, ChainsBefore).ret = ret

\* homogenize_chains(lines, report=True) on one line of chain A raised
\* TypeError, where report=False returns None.
C27_ReportRaises ==
    /\ fn = "homogenize_chains"
    /\ argFlags.report
    /\ argStructs[1] = <<PdbLine("ATOM", "ALA", <<"A">>, <<"A">>)>>
    /\ ret = Raised("TypeError")
    /\ wrapper(fn, argStructs[1], FALSE, ChainsBefore).ret = None

\* C23: process_pdbs with dry=True changes nothing: whatever save_output
\* is, the call returns None, writes no file, takes no letter from
\* _CHAINS, and the structures it was given are as they were.
C23_DryRunReturnsNone ==
    (fn = "process_pdbs" /\ argFlags.dry) =>
        /\ written = {}
        /\ chainsCount = 0
        /\ (prPc = "done") => (ret = None)

\* What a dry run keeps: it writes no file, and it ends with None or with
\* an exception, never with structures.
C23_DryRunWritesNothing ==
    (fn = "process_pdbs" /\ argFlags.dry) =>
        /\ written = {}
        /\ (prPc = "done") => (ret.kind \in {"None", "raise"})

\* A dry run on one structure of one chain, with a set of user residues,
\* ended with TypeError.
C23_DryRunRaised ==
    /\ fn = "process_pdbs"
    /\ argFlags.dry
    /\ argFlags.user_given
    /\ argStructs = <<<<PdbLine("ATOM", "ALA", <<"A">>, <<"A">>)>>>>
    /\ prPc = "done"
    /\ ret = Raised("TypeError")

\* The structure at i has the chain IDs of a structure before it.
SeenEarlier(structures, i) ==
    \E j \in 1..(i - 1) :
        read_chainids(structures[j]) = read_chainids(structures[i])

\* C28: correct_equal_chain_segids returns as many structures as it was
\* given, in the same order; a structure whose chain ID was not seen
\* earlier in the list is unchanged; no two structures of the result have
\* the same chain ID; a replacement letter is never one an input structure
\* uses and never handed out twice.
C28_NoTwoStructuresShareChain ==
    (fn = "correct_equal_chain_segids") =>
        /\ ret.kind = "structures"
        /\ Len(ret.val) = Len(argStructs)
        /\ \A i \in 1..Len(argStructs) :
            IF SeenEarlier(argStructs, i)
            THEN /\ Len(read_chainids(ret.val[i])) = 1
                 /\ \A j \in 1..Len(argStructs) :
                     \A k \in 1..Len(argStructs[j]) :
                        argStructs[j][k].chain # read_chainids(ret.val[i])[1]
            ELSE ret.val[i] = argStructs[i]
        /\ \A i, j \in 1..Len(ret.val) :
            (i < j) => (read_chainids(ret.val[i]) # read_chainids(ret.val[j]))

\* What holds whenever the call returns: as many structures, in the same
\* order, those not seen earlier unchanged, the others given one letter
\* each, no letter twice.
C28_SameNumberAndOrder ==
    (fn = "correct_equal_chain_segids" /\ ret.kind = "structures") =>
        /\ Len(ret.val) = Len(argStructs)
        /\ \A i \in 1..Len(argStructs) :
            IF SeenEarlier(argStructs, i)
            THEN Len(read_chainids(ret.val[i])) = 1
            ELSE ret.val[i] = argStructs[i]
        /\ \A i, j \in 1..Len(argStructs) :
            (i < j /\ SeenEarlier(argStructs, i) /\ SeenEarlier(argStructs, j))
                => (read_chainids(ret.val[i]) # read_chainids(ret.val[j]))

\* Two structures of chain A were given and read_chainids returns a list:
\* the call raised TypeError.
C28_SetOfListsRaises ==
    /\ fn = "correct_equal_chain_segids"
    /\ idsKind = "list"
    /\ Len(argStructs) = 2
    /\ read_chainids(argStructs[1]) = <<<<"A">>>>
    /\ read_chainids(argStructs[2]) = <<<<"A">>>>
    /\ ret = Raised("TypeError")

\* Two structures of chains A and B were given and read_chainids returns a
\* string: the second came back with chain A, which the first uses.
C28_LetterInUseHandedOut ==
    /\ fn = "correct_equal_chain_segids"
    /\ idsKind = "str"
    /\ Len(argStructs) = 2
    /\ argStructs[1] = argStructs[2]
    /\ read_chainids(argStructs[1]) = <<<<"A">>, <<"B">>>>
    /\ ret.kind = "structures"
    /\ read_chainids(ret.val[2]) = <<<<"A">>>>

\* The name a residue has after the renaming steps.
Renamed(res) ==
    IF res = "MSE" THEN "MET"
    ELSE IF res \in {"HSD", "HSE", "HID", "HIE"} THEN "HIS"
    ELSE res

\* The residue names of the lines of a structure, in order.
ResiduesOf(lines) == [i \in 1..Len(lines) |-> lines[i].res]

\* C30: after the line-by-line steps of process_pdbs every HETATM line left
\* has a residue name of the supported HETATM set or of the user's set,
\* every ATOM line left one of the supported ATOM set, no line is named
\* MSE, HSD, HSE, HID or HIE, and no line of a supported residue has been
\* removed: the residues left are, in order, the renamed residues of the
\* input that are in one of the three sets.
C30_LineByLineLeavesSupported ==
    (fn = "process_pdbs" /\ prPc \in {"whole", "combined", "return", "done"}
        /\ argFlags.user_given) =>
        \A s \in 1..Len(result_1) :
            LET Supported(res) ==
                    res \in supported_ATOM \cup supported_HETATM
                                \cup argFlags.user
                SupportedBefore(res) == Supported(res) \/ Supported(Renamed(res))
                RenamedResidues ==
                    [i \in 1..Len(argStructs[s]) |->
                        Renamed(argStructs[s][i].res)]
            IN /\ \A i \in 1..Len(result_1[s]) :
                    /\ (result_1[s][i].rec = "HETATM") =>
                          (result_1[s][i].res
                              \in supported_HETATM \cup argFlags.user)
                    /\ (result_1[s][i].rec = "ATOM") =>
                          (result_1[s][i].res \in supported_ATOM)
                    /\ result_1[s][i].res
                          \notin {"MSE", "HSD", "HSE", "HID", "HIE"}
               /\ ResiduesOf(result_1[s]) = SelectSeq(RenamedResidues, Supported)
               /\ Len(result_1[s]) =
                    Len(SelectSeq(ResiduesOf(argStructs[s]), SupportedBefore))

\* A structure with an HETATM line of MSE and an ATOM line of a residue of
\* the user went through the steps: the first is now an ATOM line of MET,
\* the second an HETATM line.
C30_Witness ==
    /\ fn = "process_pdbs"
    /\ prPc = "whole"
    /\ argFlags.user = {"UNK"}
    /\ argStructs = <<<<PdbLine("HETATM", "MSE", <<"A">>, <<"A">>),
                        PdbLine("ATOM", "UNK", <<"A">>, <<"A">>)>>>>
    /\ result_1 = <<<<PdbLine("ATOM", "MET", <<"A">>, <<"A">>),
                      PdbLine("HETATM", "UNK", <<"A">>, <<"A">>)>>>>
=============================================================================
